---- MODULE Spec2Model ----
(***************************************************************************)
(* A model of the ppm templating engine (src/src/lib.rs and the predefined *)
(* commands).  A string is a sequence of characters, a character is a      *)
(* one-element TLA+ string.  Offsets are byte offsets as in Rust: the      *)
(* character TwoByte stands for a character whose UTF-8 encoding takes two *)
(* bytes, every other character takes one.                                 *)
(***************************************************************************)
EXTENDS Integers, Sequences, FiniteSets, TLC

VARIABLES
    orig_s,      \* Engine::process: the source as passed in (orig_s)
    s,           \* parse_commands: the remaining input
    lvl,         \* parse_commands: the nesting level
    parsed,      \* parse_commands: the atoms produced so far (res / parsed)
    issues,      \* the issue accumulator
    pc,          \* "parse", "dispatch", "done" or "abort"; "split" before a
                 \* call of tools::split_args; "from_index" and "to_index"
                 \* before a call of these
    start,       \* Engine::process: the running byte offset
    idx,         \* Engine::process: the index of the next atom of the for loop
    res,         \* Engine::process: the output fragments
    engine_vars, \* Engine.vars
    commands,    \* Engine.commands: command name -> handler
    debug,       \* the build: TRUE when debug assertions and overflow checks are on
    calls,       \* the handler invocations made by the top-level process call
    vars_before, \* Engine.vars when process was called
    panic,       \* why the call aborted, "" when it did not
    added,       \* the add_command calls made before process, with what they returned
    sort_last,   \* the build: which element sort_by_key takes the key of last
    args_out,    \* tools::split_args: the vector a call returned
    file_loc,    \* FileLoc::from_index: the location a call returned
    loc_index,   \* FileLoc::to_index: the index a call returned
    input        \* how the caller put the source together

vars == <<orig_s, s, lvl, parsed, issues, pc, start, idx, res, engine_vars,
          commands, debug, calls, vars_before, panic, added, sort_last, args_out,
          file_loc, loc_index, input>>

-----------------------------------------------------------------------------
(* Characters and strings *)

TwoByte == "E"

len_utf8(c) == IF c = TwoByte THEN 2 ELSE 1

is_whitespace(c) == c \in {" ", "\n", "\t"}

RECURSIVE str_len(_)
str_len(cs) == IF cs = <<>> THEN 0 ELSE len_utf8(Head(cs)) + str_len(Tail(cs))

RECURSIVE concat(_)
concat(ss) == IF ss = <<>> THEN <<>> ELSE Head(ss) \o concat(Tail(ss))

\* the characters of cs at positions from..to (1-based, inclusive)
slice(cs, from, to) == SubSeq(cs, from, to)

\* whether byte offset b is a character boundary of cs
RECURSIVE is_char_boundary(_, _)
is_char_boundary(cs, b) ==
    IF b = 0 THEN TRUE
    ELSE IF cs = <<>> \/ b < 0 THEN FALSE
    ELSE is_char_boundary(Tail(cs), b - len_utf8(Head(cs)))

\* the number of characters of cs in front of byte offset b (a boundary)
RECURSIVE chars_before(_, _)
chars_before(cs, b) ==
    IF b <= 0 \/ cs = <<>> THEN 0
    ELSE 1 + chars_before(Tail(cs), b - len_utf8(Head(cs)))

-----------------------------------------------------------------------------
(* util.rs: AutoEscaped.  An item is (esc, (i, c)); k is the position of c *)
(* in the character sequence, i its byte offset.                           *)

Item(esc, i, k, c) == [esc |-> esc, i |-> i, k |-> k, c |-> c]

\* a faulty auto_escape that drops an escape character at the end of the input
RECURSIVE auto_escape_drop_last_from(_, _, _)
auto_escape_drop_last_from(cs, k, i) ==
    IF k > Len(cs) THEN <<>>
    ELSE IF cs[k] = "\\"
    THEN IF k + 1 <= Len(cs)
         THEN <<Item(TRUE, i + 1, k + 1, cs[k + 1])>>
              \o auto_escape_drop_last_from(cs, k + 2, i + 1 + len_utf8(cs[k + 1]))
         ELSE <<>>
    ELSE <<Item(FALSE, i, k, cs[k])>>
         \o auto_escape_drop_last_from(cs, k + 1, i + len_utf8(cs[k]))

RECURSIVE auto_escape_from(_, _, _)
auto_escape_from(cs, k, i) ==
    IF k > Len(cs) THEN <<>>
    ELSE IF cs[k] = "\\"
    THEN IF k + 1 <= Len(cs)
         THEN <<Item(TRUE, i + 1, k + 1, cs[k + 1])>>
              \o auto_escape_from(cs, k + 2, i + 1 + len_utf8(cs[k + 1]))
         ELSE <<Item(FALSE, i, k, cs[k])>>
    ELSE <<Item(FALSE, i, k, cs[k])>>
         \o auto_escape_from(cs, k + 1, i + len_utf8(cs[k]))

\* a faulty auto_escape that never marks a character as escaped
RECURSIVE auto_escape_never_from(_, _, _)
auto_escape_never_from(cs, k, i) ==
    IF k > Len(cs) THEN <<>>
    ELSE <<Item(FALSE, i, k, cs[k])>>
         \o auto_escape_never_from(cs, k + 1, i + len_utf8(cs[k]))

auto_escape_never(cs) == auto_escape_never_from(cs, 1, 0)

auto_escape(cs) == auto_escape_from(cs, 1, 0)

-----------------------------------------------------------------------------
(* util.rs: Span, lib.rs: Issue, SourceAtom *)

Span(st, ln) == [start |-> st, len |-> ln]

span_end(sp) == sp.start + sp.len

Issue(id, sp) == [id |-> id, span |-> sp]

Str(text) == [tag |-> "Str", text |-> text]

Command(text) == [tag |-> "Command", text |-> text]

-----------------------------------------------------------------------------
(* lib.rs: parse_commands *)

\* the inner `while let` loop over the escaped characters of s: the first
\* event that leaves it, with the level reached
RECURSIVE scan(_, _, _)
scan(items, j, l) ==
    IF j > Len(items) THEN [kind |-> "end", lvl |-> l, i |-> 0, k |-> 0]
    ELSE LET it == items[j]
             peek(ch) == /\ j + 1 <= Len(items)
                         /\ ~items[j + 1].esc
                         /\ items[j + 1].c = ch
         IN  IF it.c = "(" /\ ~it.esc /\ peek("%")
             THEN IF l + 1 = 1
                  THEN [kind |-> "open", lvl |-> 1, i |-> it.i, k |-> it.k]
                  ELSE scan(items, j + 1, l + 1)
             ELSE IF it.c = "%" /\ ~it.esc /\ peek(")")
             THEN IF l = 0
                  THEN [kind |-> "unmatched", lvl |-> 0, i |-> it.i, k |-> it.k]
                  ELSE IF l - 1 = 0
                  THEN [kind |-> "close", lvl |-> 0, i |-> it.i, k |-> it.k]
                  ELSE scan(items, j + 1, l - 1)
             ELSE scan(items, j + 1, l)

\* the text that stays in s when an opening or closing delimiter at
\* character position k is split off: s.split_off(i), replace_range(0..2, "")
after_delim(cs, k) == slice(cs, k + 2, Len(cs))

\* a faulty drop of an unmatched closing delimiter that leaves s as it is
drop_delim_kept(cs, k) == cs

\* the text that stays in s when an unmatched closing delimiter at character
\* position k is dropped: s.replace_range(i..i + 2, "")
drop_delim(cs, k) == slice(cs, 1, k - 1) \o slice(cs, k + 2, Len(cs))

\* the span of the command:no_end issue
no_end_span(orig_s_len, s_len) == Span(orig_s_len - s_len, s_len)

\* the span of the command:unmatched_closing_delim issue
unmatched_span(i) == Span(i, 2)

\* what an iteration of the 'outer loop does on the event ev that ends its scan
parse_event(st, orig_s_len, ev) ==
    CASE ev.kind = "open" ->
           [s |-> after_delim(st.s, ev.k), lvl |-> ev.lvl,
            res |-> Append(st.res, Str(slice(st.s, 1, ev.k - 1))),
            issues |-> st.issues]
      [] ev.kind = "unmatched" ->
           [s |-> drop_delim(st.s, ev.k), lvl |-> ev.lvl,
            res |-> st.res,
            issues |-> Append(st.issues,
                  Issue("command:unmatched_closing_delim", unmatched_span(ev.i)))]
      [] ev.kind = "close" ->
           [s |-> after_delim(st.s, ev.k), lvl |-> ev.lvl,
            res |-> Append(st.res, Command(slice(st.s, 1, ev.k - 1))),
            issues |-> st.issues]
      [] ev.kind = "end" ->
           IF ev.lvl = 0
           THEN [s |-> <<>>, lvl |-> ev.lvl,
                 res |-> Append(st.res, Str(st.s)), issues |-> st.issues]
           ELSE [s |-> <<>>, lvl |-> ev.lvl,
                 res |-> Append(st.res, Command(st.s)),
                 issues |-> Append(st.issues,
                       Issue("command:no_end", no_end_span(orig_s_len, str_len(st.s))))]

\* one iteration of the 'outer loop on the state st = [s, lvl, res, issues]
parse_iter(st, orig_s_len) ==
    parse_event(st, orig_s_len, scan(auto_escape(st.s), 1, st.lvl))

RECURSIVE parse_loop(_, _)
parse_loop(st, orig_s_len) ==
    IF st.s = <<>> THEN st ELSE parse_loop(parse_iter(st, orig_s_len), orig_s_len)

\* parse_commands(s, issues): the atoms and the issues pushed
parse_commands(src) ==
    parse_loop([s |-> src, lvl |-> 0, res |-> <<>>, issues |-> <<>>], str_len(src))

-----------------------------------------------------------------------------
(* util.rs: SplitIter, Unescaped, split_unescaped_impl; str::split and the *)
(* integer conversions of the standard library                             *)

Min(S) == CHOOSE x \in S : \A y \in S : x <= y

\* SplitIter without a length limit and without keeping the separators: the
\* runs of items between the items is_sep accepts; no run follows the last
\* separator when nothing follows it, and an empty input has no run at all
RECURSIVE split_items(_, _)
split_items(items, sep) ==
    IF items = <<>> THEN <<>>
    ELSE LET at == {j \in 1..Len(items) : ~items[j].esc /\ items[j].c = sep}
         IN  IF at = {} THEN <<items>>
             ELSE <<SubSeq(items, 1, Min(at) - 1)>>
                  \o split_items(SubSeq(items, Min(at) + 1, Len(items)), sep)

\* Unescaped with unescape_all_except(sep, esc): the escape character comes
\* back in front of every escaped item except the separator
RECURSIVE unescape_all_except(_, _)
unescape_all_except(items, sep) ==
    IF items = <<>> THEN <<>>
    ELSE (IF Head(items).esc /\ Head(items).c # sep
          THEN <<"\\", Head(items).c>> ELSE <<Head(items).c>>)
         \o unescape_all_except(Tail(items), sep)

split_unescaped(text, sep) ==
    LET runs == split_items(auto_escape(text), sep)
    IN  [j \in 1..Len(runs) |-> unescape_all_except(runs[j], sep)]

\* SplitIter::next with max_len = Some(n), left parts still to come: the last
\* part is the whole rest, also when the rest is empty
RECURSIVE splitn_items(_, _, _)
splitn_items(items, sep, left) ==
    IF left = 1 THEN <<items>>
    ELSE IF items = <<>> THEN <<>>
    ELSE LET at == {j \in 1..Len(items) : ~items[j].esc /\ items[j].c = sep}
         IN  IF at = {} THEN <<items>> \o splitn_items(<<>>, sep, left - 1)
             ELSE <<SubSeq(items, 1, Min(at) - 1)>>
                  \o splitn_items(SubSeq(items, Min(at) + 1, Len(items)), sep, left - 1)

splitn_unescaped(text, n, sep) ==
    LET runs == splitn_items(auto_escape(text), sep, n)
    IN  [j \in 1..Len(runs) |-> unescape_all_except(runs[j], sep)]

\* the characters of the model in the order of their code points; TwoByte,
\* not in ASCII, comes last
CodeOrder ==
    <<"\t", "\n", " ", "%", "(", ")", "+", "-",
      "0", "1", "2", "3", "4", "5", "6", "7", "8", "9", ":", "=", "\\", "_",
      "a", "b", "c", "d", "e", "f", "g", "h", "i", "j", "k", "l", "m", "n", "o",
      "p", "q", "r", "s", "t", "u", "v", "w", "x", "y", "z", "{", "}", TwoByte>>

char_rank(c) == CHOOSE k \in 1..Len(CodeOrder) : CodeOrder[k] = c

\* String's Ord: a < b, byte by byte
RECURSIVE str_lt(_, _)
str_lt(a, b) ==
    IF b = <<>> THEN FALSE
    ELSE IF a = <<>> THEN TRUE
    ELSE IF Head(a) = Head(b) THEN str_lt(Tail(a), Tail(b))
    ELSE char_rank(Head(a)) < char_rank(Head(b))

\* Vec::reverse
RECURSIVE reverse(_)
reverse(v) == IF v = <<>> THEN <<>> ELSE Append(reverse(Tail(v)), Head(v))

\* str::split(c): every run between two occurrences of c, empty runs included
RECURSIVE str_split(_, _)
str_split(text, c) ==
    LET at == {j \in 1..Len(text) : text[j] = c}
    IN  IF at = {} THEN <<text>>
        ELSE <<SubSeq(text, 1, Min(at) - 1)>>
             \o str_split(SubSeq(text, Min(at) + 1, Len(text)), c)

RECURSIVE join(_, _)
join(parts, sep) ==
    IF parts = <<>> THEN <<>>
    ELSE IF Len(parts) = 1 THEN parts[1]
    ELSE parts[1] \o sep \o join(Tail(parts), sep)

RECURSIVE trim_start(_)
trim_start(text) ==
    IF text # <<>> /\ is_whitespace(Head(text)) THEN trim_start(Tail(text)) ELSE text

DigitChars == <<"0", "1", "2", "3", "4", "5", "6", "7", "8", "9">>

is_digit(c) == \E d \in 1..Len(DigitChars) : DigitChars[d] = c

digit_val(c) == (CHOOSE d \in 1..Len(DigitChars) : DigitChars[d] = c) - 1

RECURSIVE digits_val(_, _)
digits_val(text, acc) ==
    IF text = <<>> THEN acc
    ELSE digits_val(Tail(text), acc * Len(DigitChars) + digit_val(Head(text)))

\* str::parse::<i128>: an optional sign and at least one decimal digit
parse_i128(text) ==
    LET signed == text # <<>> /\ Head(text) \in {"+", "-"}
        ds == IF signed THEN Tail(text) ELSE text
        ok == ds # <<>> /\ \A j \in 1..Len(ds) : is_digit(ds[j])
    IN  [ok |-> ok,
         val |-> IF ~ok THEN 0
                 ELSE IF signed /\ Head(text) = "-" THEN 0 - digits_val(ds, 0)
                 ELSE digits_val(ds, 0)]

RECURSIVE nat_to_string(_)
nat_to_string(n) ==
    IF n < Len(DigitChars) THEN <<DigitChars[n + 1]>>
    ELSE nat_to_string(n \div Len(DigitChars)) \o <<DigitChars[(n % Len(DigitChars)) + 1]>>

\* i128::to_string
to_string(n) == IF n < 0 THEN <<"-">> \o nat_to_string(0 - n) ELSE nat_to_string(n)

-----------------------------------------------------------------------------
(* lib.rs: the issue helpers of CommandConfig, absorb_new_issues *)

\* what a process call or a handler hands back: the string, the issues it
\* pushed, the variable table it leaves, and why it aborted ("" when it did not)
Ret(out, is, vs, abort) == [out |-> out, issues |-> is, vars |-> vs, abort |-> abort]

Cfg(body, body_span, cmd_span) ==
    [body |-> body, body_span |-> body_span, cmd_span |-> cmd_span]

missing_args(cfg) == Issue("command:missing_args", cfg.cmd_span)

invalid_args(cfg) == Issue("command:invalid_args", cfg.body_span)

\* the start of every new issue moves forward by subspan.start
absorb_shift(subspan, new_issues) ==
    [j \in 1..Len(new_issues) |->
        Issue(new_issues[j].id,
              Span(new_issues[j].span.start + subspan.start, new_issues[j].span.len))]

\* debug_assert!(e.span.end() < subspan.end(), "malformed subspan")
absorb_assert_ok(subspan, e) == span_end(e.span) < span_end(subspan)

\* absorb_new_issues: the issues to append and whether a debug build aborts
absorb_new_issues(subspan, new_issues) ==
    LET shifted == absorb_shift(subspan, new_issues)
    IN  [issues |-> shifted,
         abort |-> IF debug /\ \E j \in 1..Len(shifted) : ~absorb_assert_ok(subspan, shifted[j])
                   THEN "debug_assert: malformed subspan" ELSE ""]

\* Span::relative_to(parent): the span inside the parent, none when it would
\* leave the parent
relative_to(sp, parent) ==
    IF span_end(sp) <= parent.len
    THEN [some |-> TRUE, span |-> Span(parent.start + sp.start, sp.len)]
    ELSE [some |-> FALSE, span |-> sp]

RECURSIVE process_new(_, _)

\* what absorb_new_issues makes of the result r of a process call
absorbed(r, subspan) ==
    IF r.abort # "" THEN r
    ELSE Ret(r.out, absorb_new_issues(subspan, r.issues).issues, r.vars,
             absorb_new_issues(subspan, r.issues).abort)

\* CommandConfig::process
cfg_process(cfg, text, vs) == absorbed(process_new(text, vs), cfg.body_span)

\* take(&mut self.body): the context with its body field taken out
take_body(cfg) == Cfg(<<>>, cfg.body_span, cfg.cmd_span)

\* CommandConfig::process_body: the body is taken out of the context and
\* processed
process_body(cfg, vs) == cfg_process(take_body(cfg), cfg.body, vs)

\* the `?` on the span of process_subbody, and the caller's unwrap
subbody_absorbed(r, sp) ==
    IF r.abort # "" THEN r
    ELSE IF ~sp.some THEN Ret(<<>>, <<>>, r.vars, "unwrap on None: process_subbody")
    ELSE absorbed(r, sp.span)

\* CommandConfig::process_subbody; the caller unwraps the result
process_subbody(cfg, subbody, subspan, vs) ==
    subbody_absorbed(process_new(subbody, vs), relative_to(subspan, cfg.body_span))

-----------------------------------------------------------------------------
(* util.rs: FileLoc, a row and a column, both counted from 0 *)

FileLoc(row, col) == [row |-> row, col |-> col]

\* s[..i]: the characters in front of byte offset i
str_before(cs, i) == SubSeq(cs, 1, chars_before(cs, i))

\* chars().filter(indicator(c)).count()
RECURSIVE count_char(_, _)
count_char(cs, c) ==
    IF cs = <<>> THEN 0
    ELSE (IF Head(cs) = c THEN 1 ELSE 0) + count_char(Tail(cs), c)

\* chars().rev().take_while(|&x| x != c).count()
RECURSIVE count_back_until(_, _)
count_back_until(cs, c) ==
    IF cs = <<>> \/ cs[Len(cs)] = c THEN 0
    ELSE 1 + count_back_until(SubSeq(cs, 1, Len(cs) - 1), c)

\* FileLoc::from_index; the slice panics when i is past the end or inside
\* a character
from_index_panics(i, cs) == i > str_len(cs) \/ ~is_char_boundary(cs, i)

from_index(i, cs) ==
    FileLoc(count_char(str_before(cs, i), "\n"), count_back_until(str_before(cs, i), "\n"))

\* split('\n').take(row).map(|s| s.len()).sum()
RECURSIVE sum_len(_, _)
sum_len(parts, n) ==
    IF n = 0 \/ parts = <<>> THEN 0
    ELSE str_len(Head(parts)) + sum_len(Tail(parts), n - 1)

\* FileLoc::to_index
to_index(loc, cs) == sum_len(str_split(cs, "\n"), loc.row) + loc.col

-----------------------------------------------------------------------------
(* Engine.vars: a map from strings to strings *)

map_insert(m, key, val) ==
    [x \in DOMAIN m \cup {key} |-> IF x = key THEN val ELSE m[x]]

map_remove(m, key) == [x \in DOMAIN m \ {key} |-> m[x]]

-----------------------------------------------------------------------------
(* predefined_commands/tools.rs *)

starts_with(cs, k, c1, c2) == k + 1 <= Len(cs) /\ cs[k] = c1 /\ cs[k + 1] = c2

\* one pass of the loop of find_seps, at index k with level l and escape
\* flag esc: the level and the flag after it, and whether k is pushed
find_seps_at(cs, k, l, esc) ==
    IF esc THEN [l |-> l, esc |-> FALSE, sep |-> FALSE]
    ELSE IF cs[k] = "\\" THEN [l |-> l, esc |-> TRUE, sep |-> FALSE]
    ELSE IF starts_with(cs, k, "(", "%") THEN [l |-> l + 1, esc |-> FALSE, sep |-> FALSE]
    ELSE IF starts_with(cs, k, "%", ")")
         THEN [l |-> IF l = 0 THEN 0 ELSE l - 1, esc |-> FALSE, sep |-> FALSE]
    ELSE [l |-> l, esc |-> FALSE, sep |-> l = 0 /\ cs[k] = ":"]

\* find_seps: the positions of the colons that are unescaped and at level 0
RECURSIVE find_seps_from(_, _, _, _)
find_seps_from(cs, k, l, esc) ==
    IF k > Len(cs) THEN {}
    ELSE LET st == find_seps_at(cs, k, l, esc)
         IN  (IF st.sep THEN {k} ELSE {}) \cup find_seps_from(cs, k + 1, st.l, st.esc)

find_seps(cs) == find_seps_from(cs, 1, 0, FALSE)

\* the parts of cs between the positions seps, the leftmost first
RECURSIVE split_at(_, _, _)
split_at(cs, seps, from) ==
    LET later == {k \in seps : k >= from}
    IN  IF later = {} THEN <<SubSeq(cs, from, Len(cs))>>
        ELSE <<SubSeq(cs, from, Min(later) - 1)>> \o split_at(cs, seps, Min(later) + 1)

\* unescpae_colons: `\:` becomes `:` and `\\` becomes `\`, every other
\* escaped character keeps its backslash
RECURSIVE unescape_colon_items(_)
unescape_colon_items(items) ==
    IF items = <<>> THEN <<>>
    ELSE (IF Head(items).esc /\ Head(items).c \notin {":", "\\"}
          THEN <<"\\", Head(items).c>> ELSE <<Head(items).c>>)
         \o unescape_colon_items(Tail(items))

unescpae_colons(text) == unescape_colon_items(auto_escape(text))

\* splitn_args(n, s): at most n parts; only when there were more are the
\* parts in front unescaped, the last part is the rest as it was written
splitn_args(n, text) ==
    LET spl == split_at(text, find_seps(text), 1)
    IN  IF n = 0 THEN <<>>
        ELSE IF Len(spl) > n
        THEN [j \in 1..(n - 1) |-> unescpae_colons(spl[j])]
             \o <<join(SubSeq(spl, n, Len(spl)), <<":">>)>>
        ELSE spl

\* split_args_inner(s, map) on the parts spl between the separators: map
\* is applied to every part cut off to the right of a separator, the
\* leftmost part, what is left of s, is pushed as it is
split_args_inner(spl) ==
    [j \in 1..Len(spl) |-> IF j = 1 THEN spl[j] ELSE unescpae_colons(spl[j])]

\* split_args: split_args_inner with unescpae_colons for map
split_args(text) == split_args_inner(split_at(text, find_seps(text), 1))

\* split_args_with_len: every part unescaped, with its length in the input
split_args_with_len(text) ==
    LET parts == split_at(text, find_seps(text), 1)
    IN  [j \in 1..Len(parts) |->
            [text |-> unescpae_colons(parts[j]), len |-> str_len(parts[j])]]

-----------------------------------------------------------------------------
(* predefined_commands.rs: the handlers *)

\* a faulty literal_handler that processes its body
literal_handler_processed(cfg, vs) == cfg_process(cfg, cfg.body, vs)

\* literal_handler
literal_handler(cfg, vs) == Ret(cfg.body, <<>>, vs, "")

\* eval_handler
eval_handler(cfg, vs) == process_body(cfg, vs)

\* the lookup of get_var_handler, r the processed body
get_var_lookup(cfg, r) ==
    IF r.abort # "" THEN r
    ELSE IF r.out \in DOMAIN r.vars
    THEN Ret(r.vars[r.out], r.issues, r.vars, "")
    ELSE Ret(<<>>, Append(r.issues, invalid_args(cfg)), r.vars, "")

\* get_var_handler
get_var_handler(cfg, vs) == get_var_lookup(cfg, process_body(cfg, vs))

\* the insert of set_var_handler, r the processed body and spl its parts
set_var_insert(r, spl) ==
    IF r.abort # "" THEN r
    ELSE IF spl = <<>> THEN Ret(<<>>, r.issues, r.vars, "unwrap on None: set_var_handler")
    ELSE Ret(<<>>, r.issues,
             map_insert(r.vars, spl[1], IF Len(spl) >= 2 THEN spl[2] ELSE <<>>), "")

set_var_split(r) == set_var_insert(r, split_unescaped(r.out, "="))

\* set_var_handler
set_var_handler(cfg, vs) == set_var_split(process_body(cfg, vs))

\* the first of parts that is not empty, the empty string when none is
RECURSIVE first_non_empty(_)
first_non_empty(parts) ==
    IF parts = <<>> THEN <<>>
    ELSE IF Head(parts) # <<>> THEN Head(parts)
    ELSE first_non_empty(Tail(parts))

\* the `for s in spl` of fallback_handler, r the processed body
fallback_pick(r) ==
    IF r.abort # "" THEN r
    ELSE Ret(first_non_empty(split_unescaped(r.out, ":")), r.issues, r.vars, "")

\* fallback_handler (the command alt)
fallback_handler(cfg, vs) == fallback_pick(process_body(cfg, vs))

-----------------------------------------------------------------------------
(* predefined_commands/for_loop.rs *)

ForErr(is, vs, e) ==
    [ok |-> FALSE, abort |-> "", issues |-> Append(is, e), vars |-> vs,
     loopvar |-> <<>>, kind |-> "", list |-> <<>>, a |-> 0, b |-> 0, body |-> <<>>]

ForAbort(r) ==
    [ok |-> FALSE, abort |-> r.abort, issues |-> <<>>, vars |-> r.vars,
     loopvar |-> <<>>, kind |-> "", list |-> <<>>, a |-> 0, b |-> 0, body |-> <<>>]

ForOk(is, vs, loopvar, kind, list, a, b, body) ==
    [ok |-> TRUE, abort |-> "", issues |-> is, vars |-> vs,
     loopvar |-> loopvar, kind |-> kind, list |-> list, a |-> a, b |-> b, body |-> body]

Word(c1, c2) == <<c1, c2>>

\* ForConfig::new, the `to` part of a range: tr is the processed end
ForConfig_to(cfg, is1, w, body, from, tr) ==
    IF tr.abort # "" THEN ForAbort(tr)
    ELSE IF ~parse_i128(tr.out).ok
    THEN ForErr(is1 \o tr.issues, tr.vars, invalid_args(cfg))
    ELSE ForOk(is1 \o tr.issues, tr.vars, w[1], "Range", <<>>,
               from, parse_i128(tr.out).val, body)

\* ForConfig::new, the `from` part of a range: fr is the processed start
ForConfig_from(cfg, is0, w, body, fr) ==
    IF fr.abort # "" THEN ForAbort(fr)
    ELSE IF ~parse_i128(fr.out).ok
    THEN ForErr(is0 \o fr.issues, fr.vars, invalid_args(cfg))
    ELSE IF Len(w) < 4 \/ w[4] # Word("t", "o")
    THEN ForErr(is0 \o fr.issues, fr.vars, invalid_args(cfg))
    ELSE IF Len(w) < 5 THEN ForErr(is0 \o fr.issues, fr.vars, invalid_args(cfg))
    ELSE ForConfig_to(cfg, is0 \o fr.issues, w, body, parse_i128(fr.out).val,
                      cfg_process(cfg, w[5], fr.vars))

\* ForConfig::new, the list: ar is the processed list
ForConfig_in(is0, w, body, ar) ==
    IF ar.abort # "" THEN ForAbort(ar)
    ELSE ForOk(is0 \o ar.issues, ar.vars, w[1], "List",
               split_unescaped(ar.out, ":"), 0, 0, body)

\* ForConfig::new once the head is processed: hr is the result, w its words
ForConfig_kind(cfg, hr, w, body) ==
    IF hr.abort # "" THEN ForAbort(hr)
    ELSE IF Len(w) < 2 THEN ForErr(hr.issues, hr.vars, missing_args(cfg))
    ELSE IF w[2] = Word("i", "n")
    THEN ForConfig_in(hr.issues, w, body,
             cfg_process(cfg, trim_start(join(SubSeq(w, 3, Len(w)), <<" ">>)), hr.vars))
    ELSE IF w[2] = <<"f", "r", "o", "m">>
    THEN IF Len(w) < 3 THEN ForErr(hr.issues, hr.vars, invalid_args(cfg))
         ELSE ForConfig_from(cfg, hr.issues, w, body, cfg_process(cfg, w[3], hr.vars))
    ELSE ForErr(hr.issues, hr.vars, invalid_args(cfg))

ForConfig_head(cfg, hr, body) == ForConfig_kind(cfg, hr, str_split(hr.out, " "), body)

ForConfig_split(cfg, vs, spl) ==
    ForConfig_head(cfg, process_subbody(cfg, spl[1].text, Span(0, spl[1].len), vs),
                   IF Len(spl) >= 2 THEN spl[2].text ELSE <<>>)

\* ForConfig::new
ForConfig_new(cfg, vs) == ForConfig_split(cfg, vs, split_args_with_len(cfg.body))

\* faulty iteration values: the range without its last value
for_values_exclusive(fc) ==
    IF fc.kind = "Range"
    THEN [j \in 1..(fc.b - fc.a) |-> to_string(fc.a + j - 1)]
    ELSE fc.list

\* the iteration values of a loop, each in its string form
for_values(fc) ==
    IF fc.kind = "Range"
    THEN [j \in 1..(fc.b - fc.a + 1) |-> to_string(fc.a + j - 1)]
    ELSE fc.list

\* one pass of the loop: r is the processed body, pushed onto the results
for_push(acc, r) == Ret(acc.out \o r.out, acc.issues \o r.issues, r.vars, r.abort)

\* the loop itself: bind the variable, process the body, push the result
RECURSIVE for_iter(_, _, _, _, _)
for_iter(cfg, loopvar, values, body, acc) ==
    IF values = <<>> \/ acc.abort # "" THEN acc
    ELSE for_iter(cfg, loopvar, Tail(values), body,
             for_push(acc, cfg_process(cfg, body,
                                       map_insert(acc.vars, loopvar, Head(values)))))

\* the variable table once the loop is over: the earlier binding is back,
\* or the variable is removed
for_restore(vs, loopvar, before) ==
    IF loopvar \in DOMAIN before
    THEN map_insert(vs, loopvar, before[loopvar])
    ELSE map_remove(vs, loopvar)

\* the end of the handler: lr is what the loop left
for_finish(fc, lr) ==
    IF lr.abort # "" THEN lr
    ELSE Ret(lr.out, lr.issues, for_restore(lr.vars, fc.loopvar, fc.vars), "")

\* the handler once the configuration fc is known
for_run(cfg, fc) ==
    IF fc.abort # "" THEN Ret(<<>>, fc.issues, fc.vars, fc.abort)
    ELSE IF ~fc.ok THEN Ret(<<>>, fc.issues, fc.vars, "")
    ELSE IF fc.kind = "Range" /\ fc.a > fc.b
    THEN Ret(<<>>, fc.issues, map_remove(fc.vars, fc.loopvar), "")
    ELSE for_finish(fc, for_iter(cfg, fc.loopvar, for_values(fc), fc.body,
                                 Ret(<<>>, fc.issues, map_remove(fc.vars, fc.loopvar), "")))

\* for_loop::handler
for_handler(cfg, vs) == for_run(cfg, ForConfig_new(cfg, vs))

\* join_reescape_colon: a backslash in front of every colon of a part, the
\* parts joined with colons
RECURSIVE reescape_colon(_)
reescape_colon(text) ==
    IF text = <<>> THEN <<>>
    ELSE (IF Head(text) = ":" THEN <<"\\", ":">> ELSE <<Head(text)>>)
         \o reescape_colon(Tail(text))

join_reescape_colon(parts) ==
    join([j \in 1..Len(parts) |-> reescape_colon(parts[j])], <<":">>)

AscOrders ==
    {<<"+">>, <<"a", "s", "c">>, <<"a", "s", "c", "e", "n", "d", "i", "n", "g">>,
     <<"i", "n", "c">>, <<"i", "n", "c", "r", "e", "a", "s", "i", "n", "g">>}

DescOrders ==
    {<<"-">>, <<"d", "e", "s", "c">>, <<"d", "e", "s", "c", "e", "n", "d", "i", "n", "g">>,
     <<"d", "e", "c">>, <<"d", "e", "c", "r", "e", "a", "s", "i", "n", "g">>}

\* the keys taken so far with the key r of one more element
sort_key_push(acc, elem, r) ==
    [entries |-> IF r.abort # "" THEN acc.entries
                 ELSE Append(acc.entries, [elem |-> elem, key |-> r.out]),
     issues |-> acc.issues \o r.issues, vars |-> r.vars, abort |-> r.abort]

\* the closure of sort_by_key: bind the variable to the element, process
\* the expression.  The keys are taken once an element, in list order;
\* sort_by_key may take a key more than once and in another order, which
\* shows only when the expression raises issues or sets variables.
RECURSIVE sort_keys(_, _, _, _, _)
sort_keys(cfg, var, elems, expr, acc) ==
    IF elems = <<>> \/ acc.abort # "" THEN acc
    ELSE sort_keys(cfg, var, Tail(elems), expr,
             sort_key_push(acc, Head(elems),
                 cfg_process(cfg, expr, map_insert(acc.vars, var, Head(elems)))))

\* the place of e in a sorted vector: behind every entry whose key is not
\* above its own
RECURSIVE sort_insert(_, _)
sort_insert(sorted, e) ==
    IF sorted = <<>> THEN <<e>>
    ELSE IF str_lt(e.key, Head(sorted).key) THEN <<e>> \o sorted
    ELSE <<Head(sorted)>> \o sort_insert(Tail(sorted), e)

\* slice::sort_by_key, a stable sort
RECURSIVE stable_sort(_, _)
stable_sort(entries, sorted) ==
    IF entries = <<>> THEN sorted
    ELSE stable_sort(Tail(entries), sort_insert(sorted, Head(entries)))

\* the variable table behind the sort: the earlier binding is back when
\* there was one; otherwise the variable keeps the element whose key was
\* taken last (no key is taken of a vector of less than two elements)
sort_restore(vs, var, before, elems) ==
    IF var \in DOMAIN before THEN map_insert(vs, var, before[var])
    ELSE IF Len(elems) < 2 THEN map_remove(vs, var)
    ELSE map_insert(vs, var, elems[((sort_last - 1) % Len(elems)) + 1])

\* the end of sort_by_handler: k the keys, r the processed list
sort_by_finish(var, desc, elems, r, k) ==
    IF k.abort # "" THEN Ret(<<>>, r.issues \o k.issues, k.vars, k.abort)
    ELSE Ret(join_reescape_colon(
                 [j \in 1..Len(k.entries) |->
                     (IF desc THEN reverse(stable_sort(k.entries, <<>>))
                      ELSE stable_sort(k.entries, <<>>))[j].elem]),
             r.issues \o k.issues, sort_restore(k.vars, var, r.vars, elems), "")

\* the sort of the elements elems of the processed list r
sort_by_elems(cfg, var, desc, expr, r, elems) ==
    sort_by_finish(var, desc, elems, r,
        sort_keys(cfg, var, IF Len(elems) < 2 THEN <<>> ELSE elems, expr,
                  [entries |-> IF Len(elems) < 2
                               THEN [j \in 1..Len(elems) |-> [elem |-> elems[j], key |-> <<>>]]
                               ELSE <<>>,
                   issues |-> <<>>, vars |-> map_remove(r.vars, var), abort |-> ""]))

sort_by_list(cfg, var, desc, expr, r) ==
    IF r.abort # "" THEN r
    ELSE sort_by_elems(cfg, var, desc, expr, r, split_unescaped(r.out, ":"))

\* sort_by_handler once the body is split into args, and its first
\* argument into spl
sort_by_head(cfg, vs, args, spl) ==
    IF spl = <<>> THEN Ret(<<>>, <<>>, vs, "unwrap on None: sort_by_handler")
    ELSE IF Len(spl) < 2 \/ spl[2] \notin AscOrders \cup DescOrders \/ Len(spl) < 3
    THEN Ret(IF Len(args) >= 2 THEN args[2] ELSE <<>>, <<invalid_args(cfg)>>, vs, "")
    ELSE IF Len(args) < 2 THEN Ret(<<>>, <<invalid_args(cfg)>>, vs, "")
    ELSE sort_by_list(cfg, spl[1], spl[2] \in DescOrders, spl[3],
                      cfg_process(cfg, args[2], vs))

sort_by_args(cfg, vs, args) ==
    sort_by_head(cfg, vs, args, splitn_unescaped(args[1], 3, " "))

\* sort_by_handler
sort_by_handler(cfg, vs) == sort_by_args(cfg, vs, splitn_args(2, cfg.body))

\* the handlers that call cfg.process_body()
ProcessBodyCallers ==
    {"eval_handler", "get_var_handler", "set_var_handler", "fallback_handler"}

\* the body field of the context when the handler is through with it
body_left(handler, cfg) ==
    IF handler \in ProcessBodyCallers THEN take_body(cfg).body ELSE cfg.body

\* the call of a handler through its function pointer
call_handler(handler, cfg, vs) ==
    CASE handler = "literal_handler" -> literal_handler(cfg, vs)
      [] handler = "eval_handler" -> eval_handler(cfg, vs)
      [] handler = "get_var_handler" -> get_var_handler(cfg, vs)
      [] handler = "set_var_handler" -> set_var_handler(cfg, vs)
      [] handler = "for_handler" -> for_handler(cfg, vs)
      [] handler = "fallback_handler" -> fallback_handler(cfg, vs)
      [] handler = "sort_by_handler" -> sort_by_handler(cfg, vs)

-----------------------------------------------------------------------------
(* lib.rs: Engine::process, one atom *)

\* Engine::is_invalid_command_char
is_invalid_command_char(c) == is_whitespace(c) \/ c \in {"%", "(", ")", "{", "}"}

\* Engine::is_valid_command_name
is_valid_command_name(name) ==
    \A i \in 1..Len(name) : ~is_invalid_command_char(name[i])

\* add_command with the test of the name left out
add_command_unchecked(cmds, cmd, handler) ==
    [ok |-> TRUE,
     prev |-> IF cmd \in DOMAIN cmds THEN <<cmds[cmd]>> ELSE <<>>,
     commands |-> map_insert(cmds, cmd, handler)]

\* Engine::add_command: Ok(previous handler) and the new registry, or
\* Err(InvalidCommandName) and the registry as it was
add_command(cmds, cmd, handler) ==
    IF is_valid_command_name(cmd)
    THEN [ok |-> TRUE,
          prev |-> IF cmd \in DOMAIN cmds THEN <<cmds[cmd]>> ELSE <<>>,
          commands |-> map_insert(cmds, cmd, handler)]
    ELSE [ok |-> FALSE, prev |-> <<>>, commands |-> cmds]

\* the length of a run of escaped items in the source: c.len_utf8() + 1 if esc
RECURSIVE orig_len(_)
orig_len(v) ==
    IF v = <<>> THEN 0
    ELSE len_utf8(Head(v).c) + (IF Head(v).esc THEN 1 ELSE 0) + orig_len(Tail(v))

\* the unescape of a part of the atom: the backslash comes back in front of
\* an escaped character unless the character may not stand in a command name
RECURSIVE unescape_part(_)
unescape_part(v) ==
    IF v = <<>> THEN <<>>
    ELSE (IF Head(v).esc /\ ~is_invalid_command_char(Head(v).c)
          THEN <<"\\", Head(v).c>> ELSE <<Head(v).c>>)
         \o unescape_part(Tail(v))

\* `i - c.len_utf8()` in the unescape closure goes below zero
index_underflow(v) ==
    \E j \in 1..Len(v) :
        v[j].esc /\ ~is_invalid_command_char(v[j].c) /\ v[j].i < len_utf8(v[j].c)

\* splitn(2, unescaped whitespace, keep_sep = true) of the atom: the head,
\* the separator and the body; no part at all for the empty atom
split_atom(text) ==
    LET items == auto_escape(text)
        at == {j \in 1..Len(items) : ~items[j].esc /\ is_whitespace(items[j].c)}
        j0 == IF at = {} THEN Len(items) + 1 ELSE Min(at)
    IN  [none |-> items = <<>>,
         head |-> SubSeq(items, 1, j0 - 1),
         sep |-> IF at = {} THEN <<>> ELSE <<items[j0]>>,
         body |-> SubSeq(items, j0 + 1, Len(items)),
         underflow |-> index_underflow(items)]

\* a faulty resolve that hands every unbound head to the empty-string command
resolve_any_body(cmd, body) ==
    IF cmd \in DOMAIN commands
    THEN [found |-> TRUE, fallback |-> FALSE, handler |-> commands[cmd]]
    ELSE IF <<>> \in DOMAIN commands
    THEN [found |-> TRUE, fallback |-> TRUE, handler |-> commands[<<>>]]
    ELSE [found |-> FALSE, fallback |-> FALSE, handler |-> ""]

\* the handler an atom resolves to: the command named by the head, else the
\* empty-string command when the body is empty; fallback tells which
resolve(cmd, body) ==
    IF cmd \in DOMAIN commands
    THEN [found |-> TRUE, fallback |-> FALSE, handler |-> commands[cmd]]
    ELSE IF body = <<>> /\ <<>> \in DOMAIN commands
    THEN [found |-> TRUE, fallback |-> TRUE, handler |-> commands[<<>>]]
    ELSE [found |-> FALSE, fallback |-> FALSE, handler |-> ""]

\* the span of the whole invocation
make_cmd_span(st, orig_cmd_len, sep_len, orig_body_len) ==
    Span(st - 2, orig_cmd_len + sep_len + orig_body_len + 4)

\* the span of the body
make_body_span(st, orig_cmd_len, orig_body_len) == Span(st + orig_cmd_len, orig_body_len)

\* the span of the body when the head is handed to the empty-string command
fallback_body_span(st, orig_cmd_len) == Span(st, orig_cmd_len)

PreviewLen == 10

\* the message of command:unknown slices the source and the atom: why that
\* panics, "" when it does not
unknown_msg_abort(st, src, text) ==
    IF ~is_char_boundary(src, st - 2)
    THEN "slice: RowCol::from_index not at a character boundary"
    ELSE IF str_len(text) >= PreviewLen /\ ~is_char_boundary(text, PreviewLen)
    THEN "slice: preview not at a character boundary"
    ELSE ""

\* start after an atom: its length, and the two delimiters of a command
next_start(atom, st) ==
    st + str_len(atom.text) + (IF atom.tag = "Command" THEN 4 ELSE 0)

Dispatched(ret, st, call) == [ret |-> ret, start |-> st, call |-> call]

\* the context handed to the handler
make_cfg(r, st, cmd, body, head_len, sep_len, body_len) ==
    IF r.fallback
    THEN Cfg(cmd, fallback_body_span(st, head_len),
             make_cmd_span(st, head_len, sep_len, body_len))
    ELSE Cfg(body, make_body_span(st, head_len, body_len),
             make_cmd_span(st, head_len, sep_len, body_len))

\* the `match` on the handler found: call it, or push command:unknown
dispatch_resolved(atom, st, next, src, vs, r, cfg) ==
    IF r.found
    THEN Dispatched(call_handler(r.handler, cfg, vs), next,
                    <<[handler |-> r.handler, fallback |-> r.fallback,
                       atom |-> atom.text, cfg |-> cfg]>>)
    ELSE IF unknown_msg_abort(st, src, atom.text) # ""
    THEN Dispatched(Ret(<<>>, <<>>, vs, unknown_msg_abort(st, src, atom.text)), next, <<>>)
    ELSE Dispatched(Ret(<<>>, <<Issue("command:unknown", cfg.cmd_span)>>, vs, ""),
                    next, <<>>)

\* a command atom once it is split into cmd and body
dispatch_split(atom, st, next, src, vs, spl, cmd, body) ==
    IF spl.none
    THEN Dispatched(Ret(<<>>, <<>>, vs, "unwrap on None: empty command"), next, <<>>)
    ELSE IF debug /\ spl.underflow
    THEN Dispatched(Ret(<<>>, <<>>, vs, "attempt to subtract with overflow"), next, <<>>)
    ELSE dispatch_resolved(atom, st, next, src, vs, resolve(cmd, body),
             make_cfg(resolve(cmd, body), st, cmd, body,
                      orig_len(spl.head), orig_len(spl.sep), orig_len(spl.body)))

dispatch_command(atom, st, src, vs, spl) ==
    dispatch_split(atom, st, st + str_len(atom.text) + 2, src, vs, spl,
                   unescape_part(spl.head), unescape_part(spl.body))

\* the body of the `for atom in parsed` loop; st0 is start before the atom
dispatch_atom(atom, st0, src, vs) ==
    IF atom.tag = "Str"
    THEN Dispatched(Ret(atom.text, <<>>, vs, ""), st0 + str_len(atom.text), <<>>)
    ELSE dispatch_command(atom, st0 + 2, src, vs, split_atom(atom.text))

\* process_push with the variable table of before the atom
process_push_stale_vars(acc, d) ==
    Ret(acc.out \o d.ret.out, acc.issues \o d.ret.issues, acc.vars, d.ret.abort)

\* the results so far with the result d of one more atom
process_push(acc, d) ==
    Ret(acc.out \o d.ret.out, acc.issues \o d.ret.issues, d.ret.vars, d.ret.abort)

RECURSIVE process_atoms(_, _, _, _, _)
process_atoms(atoms, j, st, src, acc) ==
    IF j > Len(atoms) \/ acc.abort # "" THEN acc
    ELSE process_atoms(atoms, j + 1, next_start(atoms[j], st), src,
                       process_push(acc, dispatch_atom(atoms[j], st, src, acc.vars)))

process_parsed(text, vs, p) == process_atoms(p.res, 1, 0, text, Ret(<<>>, p.issues, vs, ""))

\* Engine::process_new: process on a fresh issue list
process_new(text, vs) == process_parsed(text, vs, parse_commands(text))

-----------------------------------------------------------------------------
(* The engine as constructed, and the inputs of a run *)

\* predefined_commands::get_all_handlers, the handlers modelled here
PredefinedCommands ==
    (<<"l", "i", "t">> :> "literal_handler")
    @@ (<<"e", "v", "a", "l">> :> "eval_handler")
    @@ (<<>> :> "get_var_handler")
    @@ (<<"v", "a", "r">> :> "get_var_handler")
    @@ (<<"l", "e", "t">> :> "set_var_handler")
    @@ (<<"f", "o", "r">> :> "for_handler")
    @@ (<<"a", "l", "t">> :> "fallback_handler")
    @@ (<<"s", "o", "r", "t", "_", "b", "y">> :> "sort_by_handler")

\* Engine::new and add_commands without the empty-string command
CommandsWithoutFallback == map_remove(PredefinedCommands, <<>>)

\* a variable table: a is bound, and so is a variable named like a command
SomeVars == (<<"a">> :> <<"1">>) @@ (<<"l", "i", "t">> :> <<"v">>)

\* the arguments of a run: how the source was put together.  kind "raw":
\* text; kind "cmd": pre (%head tail%) post; kind "range": (%for lv from a
\* to b:body%); kind "list": (%for lv in list:body%); kind "alt": (%alt
\* list%), the elements of list written with colons between them; kind
\* "eval": pre, then head BadCommand tail wrapped a times in (%eval ...%);
\* kind "forbad": (%for lv from a to b:head BadCommand tail%); kind "sort":
\* (%sort_by lv text body:list%), text the order and body the key; kind "seq":
\* the texts of the items of list one after the other; kind "args": the
\* pieces of list one after the other; kinds "inrange" and "inlist":
\* written as "list", the body holding a loop from a to b or a loop over
\* the element in head
Input(kind, text, pre, head, tail, post, lv, a, b, list, body) ==
    [kind |-> kind, text |-> text, pre |-> pre, head |-> head, tail |-> tail,
     post |-> post, lv |-> lv, a |-> a, b |-> b, list |-> list, body |-> body]

Open == <<"(", "%">>

Close == <<"%", ")">>

S_for == <<"f", "o", "r">>

S_lit == <<"l", "i", "t">>

S_eval == <<"e", "v", "a", "l">>

S_alt == <<"a", "l", "t">>

\* a list written with its colons escaped, as the loop head needs them
RECURSIVE escaped_list(_)
escaped_list(elems) ==
    IF elems = <<>> THEN <<>>
    ELSE IF Len(elems) = 1 THEN elems[1]
    ELSE elems[1] \o <<"\\", ":">> \o escaped_list(Tail(elems))

\* an invocation of a command that is not registered, with a body
BadCommand == Open \o <<"b", " ", "c">> \o Close

\* text wrapped n times in (%eval ...%)
RECURSIVE eval_wrapped(_, _)
eval_wrapped(text, n) ==
    IF n = 0 THEN text
    ELSE Open \o S_eval \o <<" ">> \o eval_wrapped(text, n - 1) \o Close

S_let == <<"l", "e", "t">>

S_sort_by == <<"s", "o", "r", "t", "_", "b", "y">>

\* the atom of an item of a sequence: the variable a is read, set to 2, set
\* to 3, or set to 4 and read inside an eval
ItemAtom(item) ==
    CASE item = "get" -> <<"a">>
      [] item = "let2" -> S_let \o <<" ", "a", "=", "2">>
      [] item = "let3" -> S_let \o <<" ", "a", "=", "3">>
      [] item = "nest" ->
           S_eval \o <<" ">> \o Open \o S_let \o <<" ", "a", "=", "4">> \o Close
           \o Open \o <<"a">> \o Close

\* the text of an item: the plain text t or a command
ItemText(item) ==
    IF item = "txt" THEN <<"t">> ELSE Open \o ItemAtom(item) \o Close

RECURSIVE seq_text(_)
seq_text(items) ==
    IF items = <<>> THEN <<>> ELSE ItemText(Head(items)) \o seq_text(Tail(items))

source_of(in) ==
    CASE in.kind = "raw" -> in.text
      [] in.kind = "cmd" -> in.pre \o Open \o in.head \o in.tail \o Close \o in.post
      [] in.kind = "range" ->
           Open \o S_for \o <<" ">> \o in.lv \o <<" ", "f", "r", "o", "m", " ">>
           \o to_string(in.a) \o <<" ", "t", "o", " ">> \o to_string(in.b)
           \o <<":">> \o in.body \o Close
      [] in.kind \in {"list", "inrange", "inlist"} ->
           Open \o S_for \o <<" ">> \o in.lv \o <<" ", "i", "n", " ">>
           \o escaped_list(in.list) \o <<":">> \o in.body \o Close
      [] in.kind = "alt" ->
           Open \o S_alt \o <<" ">> \o join(in.list, <<":">>) \o Close
      [] in.kind = "seq" -> seq_text(in.list)
      [] in.kind = "args" -> concat(in.list)
      [] in.kind = "sort" ->
           Open \o S_sort_by \o <<" ">> \o in.lv \o <<" ">> \o in.text \o <<" ">>
           \o in.body \o <<":">> \o join(in.list, <<":">>) \o Close
      [] in.kind = "eval" ->
           in.pre \o eval_wrapped(in.head \o BadCommand \o in.tail, in.a)
      [] in.kind = "forbad" ->
           Open \o S_for \o <<" ">> \o in.lv \o <<" ", "f", "r", "o", "m", " ">>
           \o to_string(in.a) \o <<" ", "t", "o", " ">> \o to_string(in.b)
           \o <<":">> \o in.head \o BadCommand \o in.tail \o Close

MaxToks == 5

Tokens == {Open, Close, <<"(">>, <<"%">>, <<")">>, <<"\\">>, <<"a">>}

RECURSIVE TokenStrings(_)
TokenStrings(n) ==
    IF n = 0 THEN {<<>>}
    ELSE LET shorter == TokenStrings(n - 1)
         IN  shorter \cup {x \o t : x \in shorter, t \in Tokens}

RawInputs ==
    {Input("raw", x, <<>>, <<>>, <<>>, <<>>, <<>>, 0, 0, <<>>, <<>>) :
        x \in TokenStrings(MaxToks)}

MaxPad == 9

RECURSIVE pad(_)
pad(n) == IF n = 0 THEN <<>> ELSE <<"a">> \o pad(n - 1)

CmdPres == {<<>>, <<"a">>, Close, Close \o <<TwoByte, "a">>}

CmdHeads ==
    {S_lit, S_eval, <<"a">>, <<"b">>} \cup {pad(n) \o <<TwoByte>> : n \in 0..MaxPad}

\* the texts written after `(%lit `: plain, nested, escaped
LitBodies ==
    {<<>>, <<"a">>, <<"a", " ", "b">>, Open \o <<"a">> \o Close,
     Open \o <<"b", " ", "c">> \o Close, <<"a", "\\", "%", "b">>,
     <<"\\">> \o Open, <<"\\">> \o Close, <<"\\", "\\">>, <<"\\", ":">>,
     <<"a", "\\", " ", "b">>}

CmdTails == {<<>>} \cup {<<" ">> \o x : x \in LitBodies}

CmdInputs ==
    {Input("cmd", <<>>, pre, head, tail, post, <<>>, 0, 0, <<>>, <<>>) :
        pre \in CmdPres, head \in CmdHeads, tail \in CmdTails, post \in {<<>>, <<"a">>}}

MaxInt == 10

MaxList == 3

LoopVars == {<<"i">>, <<"a">>}

\* a loop body that uses the loop variable lv between two literal texts
body_of(lv, left, right) == left \o Open \o lv \o Close \o right

BodySides == {<<>>, <<"x">>}

RECURSIVE Lists(_)
Lists(n) ==
    IF n = 0 THEN {<<>>}
    ELSE LET shorter == Lists(n - 1)
         IN  shorter \cup {Append(x, <<e>>) : x \in shorter, e \in {"a", "b", "c"}}

ForInputs ==
    {Input("range", <<>>, left, <<>>, <<>>, right, lv, a, b, <<>>, body_of(lv, left, right)) :
        left \in BodySides, right \in BodySides, lv \in LoopVars,
        a \in (0 - 1)..MaxInt, b \in (0 - 1)..MaxInt}
    \cup
    {Input("list", <<>>, left, <<>>, <<>>, right, lv, 0, 0, l, body_of(lv, left, right)) :
        left \in BodySides, right \in BodySides, lv \in LoopVars, l \in Lists(MaxList)}

MaxAlts == 3

\* the alternatives written in an alt: empty, text, a bound variable, an
\* unbound one, a command that gives the empty string, a command that gives
\* a text with a colon in it
Alternatives ==
    {<<>>, <<"a">>, <<"b">>, Open \o <<"a">> \o Close, Open \o <<"b">> \o Close,
     Open \o S_lit \o <<" ">> \o Close, Open \o S_lit \o <<" ", "p", ":", "q">> \o Close}

RECURSIVE AltLists(_)
AltLists(n) ==
    IF n = 0 THEN {<<>>}
    ELSE LET shorter == AltLists(n - 1)
         IN  shorter \cup {Append(x, e) : x \in shorter, e \in Alternatives}

AltInputs ==
    {Input("alt", <<>>, <<>>, <<>>, <<>>, <<>>, <<>>, 0, 0, l, <<>>) : l \in AltLists(MaxAlts)}

MaxSort == 3

MaxDepth == 2

MaxIter == 2

\* the texts in front of a nested invocation: none, plain, with an escape
NestLefts == {<<>>, <<"x">>, <<"\\", "%">>}

NestRights == {<<>>, <<"y">>}

NestInputs ==
    {Input("eval", <<>>, pre, left, right, <<>>, <<>>, d, 0, <<>>, <<>>) :
        pre \in {<<>>, <<"a">>}, left \in NestLefts, right \in NestRights, d \in 1..MaxDepth}
    \cup
    {Input("forbad", <<>>, <<>>, left, right, <<>>, <<"i">>, a, b, <<>>, <<>>) :
        left \in NestLefts, right \in NestRights, a \in 1..MaxIter, b \in 1..MaxIter}

InitWith(inputs, tables, registries) ==
    /\ input \in inputs
    /\ orig_s = source_of(input)
    /\ s = orig_s
    /\ lvl = 0
    /\ parsed = <<>>
    /\ issues = <<>>
    /\ pc = IF orig_s = <<>> THEN "dispatch" ELSE "parse"
    /\ start = 0
    /\ idx = 1
    /\ res = <<>>
    /\ engine_vars \in tables
    /\ vars_before = engine_vars
    /\ commands \in registries
    /\ debug \in BOOLEAN
    /\ calls = <<>>
    /\ panic = ""
    /\ added = <<>>
    /\ sort_last \in (IF input.kind = "sort" THEN 1..MaxSort ELSE {1})
    /\ args_out = <<>>
    /\ file_loc = FileLoc(0, 0)
    /\ loc_index = 0

Init == InitWith(RawInputs, {SomeVars}, {PredefinedCommands})

InitCmd == InitWith(CmdInputs, {SomeVars}, {PredefinedCommands, CommandsWithoutFallback})

InitFor == InitWith(ForInputs, {SomeVars}, {PredefinedCommands})

InitAlt == InitWith(AltInputs, {SomeVars}, {PredefinedCommands})

InitNest == InitWith(NestInputs, {SomeVars}, {PredefinedCommands})

\* a variable table for the sort: the elements a and b name variables with
\* the same value, c one with a smaller value, and v is bound
SortVars ==
    (<<"a">> :> <<"1">>) @@ (<<"b">> :> <<"1">>) @@ (<<"c">> :> <<"0">>)
    @@ (<<"v">> :> <<"9">>)

\* the key expressions for the sort variable lv: the element itself, the
\* same key for every element, the variable the element names
SortKeys(lv) ==
    {Open \o lv \o Close, <<"k">>, Open \o Open \o lv \o Close \o Close}

SortOrders == {<<"+">>, <<"a", "s", "c">>, <<"-">>, <<"d", "e", "s", "c">>}

SortInputs ==
    {Input("sort", order, <<>>, <<>>, <<>>, <<>>, lv, 0, 0, list, key) :
        order \in SortOrders, lv \in {<<"i">>}, list \in Lists(MaxSort),
        key \in SortKeys(<<"i">>)}
    \cup
    {Input("sort", order, <<>>, <<>>, <<>>, <<>>, lv, 0, 0, list, key) :
        order \in SortOrders, lv \in {<<"v">>}, list \in Lists(MaxSort),
        key \in SortKeys(<<"v">>)}

InitSort == InitWith(SortInputs, {SortVars}, {PredefinedCommands})

\* the alternatives of an alt that show which of them are processed: empty,
\* text, a bound variable, an unbound one (it raises an issue), and a
\* command that sets the variable a
ShortAlts ==
    {<<>>, <<"a">>, Open \o <<"a">> \o Close, Open \o <<"b">> \o Close,
     Open \o S_let \o <<" ", "a", "=", "2">> \o Close}

RECURSIVE ShortLists(_)
ShortLists(n) ==
    IF n = 0 THEN {<<>>}
    ELSE LET shorter == ShortLists(n - 1)
         IN  shorter \cup {Append(x, e) : x \in shorter, e \in ShortAlts}

ShortInputs ==
    {Input("alt", <<>>, <<>>, <<>>, <<>>, <<>>, <<>>, 0, 0, l, <<>>) :
        l \in ShortLists(MaxAlts)}

InitShort == InitWith(ShortInputs, {SomeVars}, {PredefinedCommands})

MaxInner == 2

\* a list loop whose body is a loop over the same variable, with body
\* `(%lv%)`, followed by `(%lv%)`: the inner loop is a range loop from a to
\* b ("inrange") or a list loop over the elements written in head ("inlist";
\* an inner list of more than one element would need colons that the
\* splitting of the outer loop takes away)
InnerBody(in) == source_of(in) \o Open \o in.lv \o Close

NestedInputs ==
    {Input("inrange", <<>>, <<>>, <<>>, <<>>, <<>>, lv, a, b, l,
           InnerBody(Input("range", <<>>, <<>>, <<>>, <<>>, <<>>, lv, a, b, <<>>,
                           Open \o lv \o Close))) :
        lv \in LoopVars, a \in 0..MaxInner, b \in 0..MaxInner, l \in Lists(MaxInner)}
    \cup
    {Input("inlist", <<>>, <<>>, concat(m), <<>>, <<>>, lv, 0, 0, l,
           InnerBody(Input("list", <<>>, <<>>, <<>>, <<>>, <<>>, lv, 0, 0, m,
                           Open \o lv \o Close))) :
        lv \in LoopVars, l \in Lists(MaxInner), m \in Lists(1)}

InitLoops == InitWith(NestedInputs, {SomeVars}, {PredefinedCommands})

MaxPieces == 4

\* the pieces of an argument string: text, a separator, an escaped colon, an
\* escaped backslash, an escaped opening delimiter, a nested invocation with
\* colons of its own
ArgPieces ==
    {<<"a">>, <<":">>, <<"\\", ":">>, <<"\\", "\\">>, <<"\\">> \o Open,
     Open \o <<"b", " ", "c", ":", "d">> \o Close}

RECURSIVE PieceLists(_)
PieceLists(n) ==
    IF n = 0 THEN {<<>>}
    ELSE LET shorter == PieceLists(n - 1)
         IN  shorter \cup {Append(x, e) : x \in shorter, e \in ArgPieces}

ArgInputs ==
    {Input("args", <<>>, <<>>, <<>>, <<>>, <<>>, <<>>, 0, 0, l, <<>>) :
        l \in PieceLists(MaxPieces)}

\* a caller about to hand a string to tools::split_args
InitArgs ==
    /\ input \in ArgInputs
    /\ orig_s = source_of(input)
    /\ s = orig_s
    /\ lvl = 0
    /\ parsed = <<>>
    /\ issues = <<>>
    /\ pc = "split"
    /\ start = 0
    /\ idx = 1
    /\ res = <<>>
    /\ engine_vars = SomeVars
    /\ vars_before = engine_vars
    /\ commands = PredefinedCommands
    /\ debug \in BOOLEAN
    /\ calls = <<>>
    /\ panic = ""
    /\ added = <<>>
    /\ sort_last = 1
    /\ args_out = <<>>
    /\ file_loc = FileLoc(0, 0)
    /\ loc_index = 0

MaxLoc == 4

\* the characters of a located string: a letter, a newline, a character of
\* two bytes
LocChars == {"a", "\n", TwoByte}

RECURSIVE Strings(_)
Strings(n) ==
    IF n = 0 THEN {<<>>}
    ELSE LET shorter == Strings(n - 1)
         IN  shorter \cup {Append(x, c) : x \in shorter, c \in LocChars}

\* a string and a byte offset into it, the end included
LocInputs ==
    {Input("loc", cs, <<>>, <<>>, <<>>, <<>>, <<>>, i, 0, <<>>, <<>>) :
        cs \in Strings(MaxLoc), i \in 0..(2 * MaxLoc)}

\* a caller about to hand the offset a and the string to FileLoc::from_index
InitLoc ==
    /\ input \in {in \in LocInputs : in.a <= str_len(in.text)}
    /\ orig_s = input.text
    /\ s = orig_s
    /\ lvl = 0
    /\ parsed = <<>>
    /\ issues = <<>>
    /\ pc = "from_index"
    /\ start = 0
    /\ idx = 1
    /\ res = <<>>
    /\ engine_vars = SomeVars
    /\ vars_before = engine_vars
    /\ commands = PredefinedCommands
    /\ debug \in BOOLEAN
    /\ calls = <<>>
    /\ panic = ""
    /\ added = <<>>
    /\ sort_last = 1
    /\ args_out = <<>>
    /\ file_loc = FileLoc(0, 0)
    /\ loc_index = 0

MaxSeq == 3

SeqItems == {"txt", "get", "let2", "let3"}

RECURSIVE ItemSeqs(_)
ItemSeqs(n) ==
    IF n = 0 THEN {<<>>}
    ELSE LET shorter == ItemSeqs(n - 1)
         IN  shorter \cup {Append(x, i) : x \in shorter, i \in SeqItems}

\* the sequences of up to MaxSeq plain items, and the nested item with at
\* most one item in front of it and a read behind it
SeqInputs ==
    {Input("seq", <<>>, <<>>, <<>>, <<>>, <<>>, <<>>, 0, 0, items, <<>>) :
        items \in ItemSeqs(MaxSeq)
                  \cup {front \o <<"nest">> \o back :
                            front \in ItemSeqs(1), back \in {<<>>, <<"get">>}}}

InitSeq == InitWith(SeqInputs, {SomeVars}, {PredefinedCommands})

MaxAdds == 1

\* the command names handed to add_command: the empty name, new names, a
\* name that is bound already, and names with each of the characters that
\* may not stand in a name
RegNames ==
    {<<>>, <<"n">>, <<TwoByte>>, S_lit,
     <<"a", " ", "b">>, <<"%">>, <<"(">>, <<")">>, <<"{">>, <<"}">>, <<"n", "%">>}

RegHandlers == {"literal_handler", "eval_handler", "get_var_handler"}

\* the sources processed after add_command: an invocation of a name, with
\* and without a body
RegInputs ==
    {Input("cmd", <<>>, <<>>, head, tail, <<>>, <<>>, 0, 0, <<>>, <<>>) :
        head \in {n \in RegNames : is_valid_command_name(n)},
        tail \in {<<>>, <<" ", "a">>}}

InitReg == InitWith(RegInputs, {SomeVars}, {PredefinedCommands, CommandsWithoutFallback})

-----------------------------------------------------------------------------
(* Engine::process, step by step *)

\* one iteration of the 'outer loop of parse_commands
ParseIterTo(st) ==
    /\ s' = st.s
    /\ lvl' = st.lvl
    /\ parsed' = st.res
    /\ issues' = st.issues
    /\ pc' = IF st.s = <<>> THEN "dispatch" ELSE "parse"

ParseIter ==
    /\ pc = "parse"
    /\ s # <<>>
    /\ ParseIterTo(parse_iter([s |-> s, lvl |-> lvl, res |-> parsed, issues |-> issues],
                              str_len(orig_s)))
    /\ UNCHANGED <<orig_s, start, idx, res, engine_vars, commands, debug, calls,
                   vars_before, panic, added, sort_last, args_out, file_loc, loc_index,
                   input>>

\* the handler call of an atom with the string it returned and the body
\* field it left
logged(call, out) ==
    [j \in 1..Len(call) |->
        [handler |-> call[j].handler, fallback |-> call[j].fallback,
         atom |-> call[j].atom, cfg |-> call[j].cfg,
         body_left |-> body_left(call[j].handler, call[j].cfg), returned |-> out]]

\* one iteration of `for atom in parsed`
DispatchAtomTo(d) ==
    IF d.ret.abort # ""
    THEN /\ pc' = "abort"
         /\ panic' = d.ret.abort
         /\ UNCHANGED <<issues, start, idx, res, engine_vars, calls>>
    ELSE /\ res' = IF parsed[idx].tag = "Command" /\ d.call = <<>>
                   THEN res ELSE Append(res, d.ret.out)
         /\ issues' = issues \o d.ret.issues
         /\ engine_vars' = d.ret.vars
         /\ start' = d.start
         /\ idx' = idx + 1
         /\ calls' = calls \o logged(d.call, d.ret.out)
         /\ UNCHANGED <<pc, panic>>

DispatchAtom ==
    /\ pc = "dispatch"
    /\ idx <= Len(parsed)
    /\ DispatchAtomTo(dispatch_atom(parsed[idx], start, orig_s, engine_vars))
    /\ UNCHANGED <<orig_s, s, lvl, parsed, commands, debug, vars_before, added, sort_last,
                   args_out, file_loc, loc_index, input>>

\* res.join("")
Join ==
    /\ pc = "dispatch"
    /\ idx > Len(parsed)
    /\ pc' = "done"
    /\ UNCHANGED <<orig_s, s, lvl, parsed, issues, start, idx, res, engine_vars,
                   commands, debug, calls, vars_before, panic, added, sort_last, args_out,
                   file_loc, loc_index, input>>

Next == ParseIter \/ DispatchAtom \/ Join

\* engine.add_command(cmd, handler), called before engine.process
AddCommandTo(cmd, handler, r) ==
    /\ commands' = r.commands
    /\ added' = Append(added, [cmd |-> cmd, handler |-> handler, ok |-> r.ok,
                               prev |-> r.prev, before |-> commands])

AddCommand ==
    /\ pc \in {"parse", "dispatch"}
    /\ s = orig_s
    /\ parsed = <<>>
    /\ idx = 1
    /\ Len(added) < MaxAdds
    /\ \E cmd \in RegNames, handler \in RegHandlers :
          AddCommandTo(cmd, handler, add_command(commands, cmd, handler))
    /\ UNCHANGED <<orig_s, s, lvl, parsed, issues, pc, start, idx, res, engine_vars,
                   debug, calls, vars_before, panic, sort_last, args_out, file_loc, loc_index,
                   input>>

NextReg == AddCommand \/ ParseIter \/ DispatchAtom \/ Join

\* tools::split_args(s)
SplitArgs ==
    /\ pc = "split"
    /\ args_out' = split_args(s)
    /\ s' = <<>>
    /\ pc' = "done"
    /\ UNCHANGED <<orig_s, lvl, parsed, issues, start, idx, res, engine_vars, commands,
                   debug, calls, vars_before, panic, added, sort_last, file_loc,
                   loc_index, input>>

NextArgs == SplitArgs

\* a call of FileLoc::from_index(input.a, s)
FromIndex ==
    /\ pc = "from_index"
    /\ IF from_index_panics(input.a, s)
       THEN /\ panic' = "slice: from_index not at a character boundary"
            /\ pc' = "abort"
            /\ UNCHANGED file_loc
       ELSE /\ file_loc' = from_index(input.a, s)
            /\ pc' = "to_index"
            /\ UNCHANGED panic
    /\ UNCHANGED <<orig_s, s, lvl, parsed, issues, start, idx, res, engine_vars, commands,
                   debug, calls, vars_before, added, sort_last, args_out, loc_index, input>>

\* a call of to_index(s) on the location that from_index returned
ToIndex ==
    /\ pc = "to_index"
    /\ loc_index' = to_index(file_loc, s)
    /\ pc' = "done"
    /\ UNCHANGED <<orig_s, s, lvl, parsed, issues, start, idx, res, engine_vars, commands,
                   debug, calls, vars_before, panic, added, sort_last, args_out, file_loc,
                   input>>

NextLoc == FromIndex \/ ToIndex

Spec == Init /\ [][Next]_vars

SpecCmd == InitCmd /\ [][Next]_vars

SpecFor == InitFor /\ [][Next]_vars

SpecAlt == InitAlt /\ [][Next]_vars

SpecNest == InitNest /\ [][Next]_vars

SpecSeq == InitSeq /\ [][Next]_vars

SpecSort == InitSort /\ [][Next]_vars

SpecShort == InitShort /\ [][Next]_vars

SpecLoops == InitLoops /\ [][Next]_vars

SpecArgs == InitArgs /\ [][NextArgs]_vars

SpecLoc == InitLoc /\ [][NextLoc]_vars

SpecReg == InitReg /\ [][NextReg]_vars

\* the string process returns
output == concat(res)

-----------------------------------------------------------------------------
(* Properties.  The source is described by the ghost variable input; *)
(* the predicates below are written on the source text and the result, *)
(* without the operators of the engine. *)

\* the number of backslashes right before position k of cs
RECURSIVE backslashes_before(_, _)
backslashes_before(cs, k) ==
    IF k <= 1 THEN 0
    ELSE IF cs[k - 1] = "\\" THEN 1 + backslashes_before(cs, k - 1)
    ELSE 0

\* a delimiter starts at position k of cs
delim_at(cs, k) ==
    /\ k + 1 <= Len(cs)
    /\ <<cs[k], cs[k + 1]>> \in {Open, Close}

\* cs holds a delimiter that no backslash escapes
HasUnescapedDelim(cs) ==
    \E k \in 1..Len(cs) : delim_at(cs, k) /\ backslashes_before(cs, k) % 2 = 0

HasEscapedDelim(cs) ==
    \E k \in 1..Len(cs) : delim_at(cs, k) /\ backslashes_before(cs, k) % 2 = 1

\* C1: for every input and every engine whose registry holds the predefined
\* handlers, Engine::process returns an output string: no input makes it
\* abort (panic, failed assertion, slice out of range or off a character
\* boundary, index underflow, unwrap of an absent value).
C1_NoAbort == commands = PredefinedCommands => pc # "abort"

\* C2: a source without an unescaped `(%` or `%)`, the empty source included,
\* is returned unchanged, character for character, and with no issue.
C2_RoundTrip ==
    ~HasUnescapedDelim(orig_s) =>
        /\ pc # "abort"
        /\ pc = "done" => (output = orig_s /\ issues = <<>>)

C2_Witness ==
    /\ pc = "done"
    /\ ~HasUnescapedDelim(orig_s)
    /\ HasEscapedDelim(orig_s)
    /\ output = orig_s

\* the invocation of a "cmd" input has an empty body
EmptyBody(in) == in.tail \in {<<>>, <<" ">>}

\* the head of a "cmd" input is the name of a command
HeadBound(in) == in.head \in DOMAIN commands

\* C3: a bound head gets its own handler even when a variable of that name
\* exists; an unbound head with an empty body goes to the empty-string
\* command, with the head as its body, so that `(%name%)` yields the value
\* of variable name with no issue; an unbound head with a non-empty body
\* never goes to the empty-string command.
C3_Resolution ==
    /\ (HeadBound(input) /\ pc = "done") =>
          /\ Len(calls) = 1
          /\ calls[1].handler = commands[input.head]
          /\ ~calls[1].fallback
          /\ (input.head = S_lit /\ EmptyBody(input) /\ input.pre = <<>>) =>
                output = input.post
    /\ (~HeadBound(input) /\ EmptyBody(input) /\ <<>> \in DOMAIN commands
        /\ pc = "done") =>
          /\ Len(calls) = 1
          /\ calls[1].handler = commands[<<>>]
          /\ calls[1].fallback
          /\ calls[1].cfg.body = input.head
          /\ (input.head \in DOMAIN vars_before /\ input.pre \in {<<>>, <<"a">>}) =>
                /\ output = input.pre \o vars_before[input.head] \o input.post
                /\ issues = <<>>
    /\ (~HeadBound(input) /\ ~(EmptyBody(input) /\ <<>> \in DOMAIN commands)) =>
          calls = <<>>

C3_Witness ==
    /\ pc = "done"
    /\ input.head = <<"a">>
    /\ input.tail = <<>>
    /\ Len(calls) = 1
    /\ calls[1].fallback
    /\ output = input.pre \o <<"1">> \o input.post
    /\ issues = <<>>

\* the text in front of the invocation of a "cmd" input, an unmatched closer
\* at its start left out
PreText(in) ==
    IF Len(in.pre) >= 2 /\ SubSeq(in.pre, 1, 2) = Close
    THEN SubSeq(in.pre, 3, Len(in.pre)) ELSE in.pre

\* the issues with identifier id, in the order of the accumulator
RECURSIVE issues_with(_, _)
issues_with(is, id) ==
    IF is = <<>> THEN <<>>
    ELSE (IF Head(is).id = id THEN <<Head(is)>> ELSE <<>>) \o issues_with(Tail(is), id)

\* the invocation of a "cmd" input resolves to no handler
Unresolved(in) == ~HeadBound(in) /\ ~(EmptyBody(in) /\ <<>> \in DOMAIN commands)

\* C4: when a command atom resolves to no handler, no handler is invoked, the
\* output is the input with that invocation removed, and exactly one
\* command:unknown issue is appended, whose span starts at the `(%` of the
\* invocation in the source and is as long as the atom plus both delimiters.
C4_Unknown ==
    (Unresolved(input) /\ pc = "done") =>
        /\ calls = <<>>
        /\ output = PreText(input) \o input.post
        /\ issues_with(issues, "command:unknown") =
              <<Issue("command:unknown",
                      Span(str_len(input.pre),
                           str_len(input.head \o input.tail) + 4))>>

\* the invocation of a "cmd" input is `(%lit X%)`; LitText is its X
IsLit(in) == in.head = S_lit /\ Len(in.tail) >= 1

LitText(in) == Tail(in.tail)

\* cs without the backslash in front of each escaped whitespace, percent
\* sign, parenthesis or brace; every other character stays, the backslash
\* in front of any other escaped character too
RECURSIVE strip_escapes(_)
strip_escapes(cs) ==
    IF cs = <<>> THEN <<>>
    ELSE IF cs[1] = "\\" /\ Len(cs) >= 2
    THEN (IF cs[2] \in {" ", "\n", "\t", "%", "(", ")", "{", "}"}
          THEN <<cs[2]>> ELSE <<cs[1], cs[2]>>)
         \o strip_escapes(SubSeq(cs, 3, Len(cs)))
    ELSE <<cs[1]>> \o strip_escapes(Tail(cs))

\* C5, as stated: the output of `(%lit X%)` is exactly X, byte for byte, with
\* no issue, even when X holds delimiters, nested invocations or backslash
\* escapes.
C5_LitVerbatim ==
    (IsLit(input) /\ pc = "done") =>
        /\ output = PreText(input) \o LitText(input) \o input.post
        /\ input.pre \in {<<>>, <<"a">>} => issues = <<>>

\* C5, amended: the output of `(%lit X%)` is X without the backslash in front
\* of each escaped whitespace, `%`, `(`, `)`, `{` or `}`; everything else of
\* X is kept, nested invocations are not expanded, and there is no issue.
C5_LitEscapes ==
    IsLit(input) =>
        /\ pc # "abort"
        /\ pc = "done" =>
              /\ output = PreText(input) \o strip_escapes(LitText(input)) \o input.post
              /\ input.pre \in {<<>>, <<"a">>} => issues = <<>>
              /\ engine_vars = vars_before

C5_Witness ==
    /\ pc = "done"
    /\ IsLit(input)
    /\ LitText(input) = <<"a", "\\", "%", "b">>
    /\ output = PreText(input) \o <<"a", "%", "b">> \o input.post

\* cs read from position k, left to right and two characters at a time at a
\* delimiter or a backslash, is the rest of one invocation that closes with
\* the last two characters of cs; d is the nesting level at k, n the number
\* of nested invocations opened so far
RECURSIVE closes_at_end(_, _, _, _)
closes_at_end(cs, k, d, n) ==
    IF k > Len(cs) THEN FALSE
    ELSE IF cs[k] = "\\" THEN closes_at_end(cs, k + 2, d, n)
    ELSE IF k + 1 <= Len(cs) /\ <<cs[k], cs[k + 1]>> = Open
    THEN closes_at_end(cs, k + 2, d + 1, IF d >= 1 THEN n + 1 ELSE n)
    ELSE IF k + 1 <= Len(cs) /\ <<cs[k], cs[k + 1]>> = Close
    THEN IF d = 0 THEN FALSE
         ELSE IF d = 1 THEN k + 1 = Len(cs) /\ n >= 1
         ELSE closes_at_end(cs, k + 2, d - 1, n)
    ELSE closes_at_end(cs, k + 1, d, n)

\* cs is one invocation that holds balanced nested invocations
NestedInvocation(cs) ==
    /\ Len(cs) >= 4
    /\ SubSeq(cs, 1, 2) = Open
    /\ closes_at_end(cs, 1, 0, 0)

\* the Command atoms among atoms, in order
RECURSIVE command_atoms(_)
command_atoms(atoms) ==
    IF atoms = <<>> THEN <<>>
    ELSE (IF Head(atoms).tag = "Command" THEN <<Head(atoms)>> ELSE <<>>)
         \o command_atoms(Tail(atoms))

\* C6: an invocation at level 0 that holds balanced nested invocations is
\* parsed as exactly one Command atom, whose text is everything between the
\* outer `(%` and its matching `%)`; it is never split at an inner delimiter.
C6_OneAtom ==
    (NestedInvocation(orig_s) /\ pc # "parse") =>
        command_atoms(parsed) = <<Command(SubSeq(orig_s, 3, Len(orig_s) - 2))>>

\* cs without the backslash that escapes a delimiter
RECURSIVE strip_delim_escapes(_)
strip_delim_escapes(cs) ==
    IF cs = <<>> THEN <<>>
    ELSE IF cs[1] = "\\" /\ Len(cs) >= 2
    THEN (IF delim_at(cs, 2) THEN <<cs[2]>> ELSE <<cs[1], cs[2]>>)
         \o strip_delim_escapes(SubSeq(cs, 3, Len(cs)))
    ELSE <<cs[1]>> \o strip_delim_escapes(Tail(cs))

\* C7: a delimiter escaped by a backslash in top-level literal text is no
\* delimiter and raises no issue, and the output is the text with exactly
\* that backslash removed.
C7_EscapeRemoved ==
    (~HasUnescapedDelim(orig_s) /\ HasEscapedDelim(orig_s) /\ pc = "done") =>
        /\ issues = <<>>
        /\ output = strip_delim_escapes(orig_s)

\* cs holds an opening delimiter that no backslash escapes
HasUnescapedOpen(cs) ==
    \E k \in 1..(Len(cs) - 1) :
        <<cs[k], cs[k + 1]>> = Open /\ backslashes_before(cs, k) % 2 = 0

\* the byte offsets in cs of its closing delimiters, read left to right;
\* k is the position reached and i its byte offset
RECURSIVE closers(_, _, _)
closers(cs, k, i) ==
    IF k > Len(cs) THEN <<>>
    ELSE IF cs[k] = "\\" /\ k + 1 <= Len(cs)
    THEN closers(cs, k + 2, i + 1 + len_utf8(cs[k + 1]))
    ELSE IF k + 1 <= Len(cs) /\ <<cs[k], cs[k + 1]>> = Close
    THEN <<i>> \o closers(cs, k + 2, i + 2)
    ELSE closers(cs, k + 1, i + len_utf8(cs[k]))

\* cs without its closing delimiters, read left to right
RECURSIVE strip_closers(_)
strip_closers(cs) ==
    IF cs = <<>> THEN <<>>
    ELSE IF cs[1] = "\\" /\ Len(cs) >= 2
    THEN <<cs[1], cs[2]>> \o strip_closers(SubSeq(cs, 3, Len(cs)))
    ELSE IF Len(cs) >= 2 /\ SubSeq(cs, 1, 2) = Close
    THEN strip_closers(SubSeq(cs, 3, Len(cs)))
    ELSE <<cs[1]>> \o strip_closers(Tail(cs))

\* C8: each unescaped `%)` met at level 0 gives one
\* command:unmatched_closing_delim issue and only its two characters are
\* removed: the output keeps every other character in order, and characters
\* that a removal brings together are not read as a new delimiter.
C8_OnlyClosersRemoved ==
    (~HasUnescapedOpen(orig_s) /\ pc = "done") =>
        /\ output = strip_closers(orig_s)
        /\ Len(issues) = Len(closers(orig_s, 1, 0))
        /\ \A j \in 1..Len(issues) : issues[j].id = "command:unmatched_closing_delim"

\* cs is P (%R with no unescaped delimiter in P or R: an unterminated command
\* R that starts at character position k
UnterminatedAt(cs, k) ==
    /\ k + 1 <= Len(cs)
    /\ <<cs[k], cs[k + 1]>> = Open
    /\ backslashes_before(cs, k) % 2 = 0
    /\ ~HasUnescapedDelim(SubSeq(cs, 1, k - 1))
    /\ ~HasUnescapedDelim(SubSeq(cs, k + 2, Len(cs)))

\* C9: when the source ends inside a command, parse_commands emits exactly
\* one command:no_end issue, whose span runs from just after the unmatched
\* opening delimiter to the end of the source, and delivers that remainder
\* as a Command atom.  Stated of the state parse_commands returns in.
C9_NoEnd ==
    \A k \in 1..Len(orig_s) :
        (UnterminatedAt(orig_s, k) /\ pc = "dispatch" /\ idx = 1) =>
            /\ issues_with(issues, "command:no_end") =
                  <<Issue("command:no_end",
                          Span(str_len(SubSeq(orig_s, 1, k + 1)),
                               str_len(SubSeq(orig_s, k + 2, Len(orig_s)))))>>
            /\ command_atoms(parsed) = <<Command(SubSeq(orig_s, k + 2, Len(orig_s)))>>

\* the values a loop input iterates over, in order: the integers from a to
\* b, or the elements of the list
LoopValues(in) ==
    IF in.kind = "range"
    THEN [j \in 1..(IF in.b >= in.a THEN in.b - in.a + 1 ELSE 0) |->
              to_string(in.a + j - 1)]
    ELSE in.list

\* what the loop of a loop input is to give: for each value in order, the
\* body `pre(%lv%)post` with the value in the place of the loop variable
LoopOutput(in) ==
    concat([j \in 1..Len(LoopValues(in)) |-> in.pre \o LoopValues(in)[j] \o in.post])

Binding(vs, name) == IF name \in DOMAIN vs THEN <<vs[name]>> ELSE <<>>

\* C11: after a for-loop invocation returns, whatever its mode and number of
\* iterations, the entry of the variable table for the loop variable is the
\* same as before the invocation: the earlier value, or absent.
C11_LoopVarRestored ==
    (input.kind \in {"range", "list"} /\ pc = "done") =>
        Binding(engine_vars, input.lv) = Binding(vars_before, input.lv)

\* what an alternative of the model gives when it is processed: the value of
\* the variable for `(%a%)`, nothing for the unbound `(%b%)` and for
\* `(%lit %)`, p:q for `(%lit p:q%)`, the text itself otherwise
AltValue(x) ==
    IF x = Open \o <<"a">> \o Close THEN vars_before[<<"a">>]
    ELSE IF x = Open \o S_lit \o <<" ", "p", ":", "q">> \o Close THEN <<"p", ":", "q">>
    ELSE IF x \in {Open \o <<"b">> \o Close, Open \o S_lit \o <<" ">> \o Close} THEN <<>>
    ELSE x

\* the value of the first alternative of alts whose value is not empty
RECURSIVE FirstValue(_)
FirstValue(alts) ==
    IF alts = <<>> THEN <<>>
    ELSE IF AltValue(Head(alts)) # <<>> THEN AltValue(Head(alts))
    ELSE FirstValue(Tail(alts))

\* the issues the alternatives raise themselves: one for each `(%b%)`
UnboundAlts(alts) == {j \in 1..Len(alts) : alts[j] = Open \o <<"b">> \o Close}

\* C12: alt returns the first of its colon-separated alternatives, in list
\* order, whose processed value is not empty, and the empty string when all
\* are empty; the command itself appends no issue.
C12_Alt ==
    input.kind = "alt" =>
        /\ pc # "abort"
        /\ pc = "done" =>
              /\ output = FirstValue(input.list)
              /\ Len(issues) = Cardinality(UnboundAlts(input.list))
              /\ \A j \in 1..Len(issues) : issues[j].id = "command:invalid_args"
              /\ engine_vars = vars_before

\* the byte offset in the source of the BadCommand of a nested input: the
\* text in front of it is pre and a times `(%eval `, or the head of the loop,
\* and then the text head
BadOffset(in) ==
    IF in.kind = "eval"
    THEN str_len(in.pre) + in.a * (str_len(S_eval) + 3) + str_len(in.head)
    ELSE str_len(Open \o S_for \o <<" ">> \o in.lv \o <<" ", "f", "r", "o", "m", " ">>
                 \o to_string(in.a) \o <<" ", "t", "o", " ">> \o to_string(in.b)
                 \o <<":">>) + str_len(in.head)

\* how often the BadCommand of a nested input is processed
BadCount(in) ==
    IF in.kind = "eval" THEN 1
    ELSE IF in.b >= in.a THEN in.b - in.a + 1 ELSE 0

\* C13: an issue raised while a handler reprocesses a part of its body (an
\* unknown command in an eval body at any depth, or in a loop body on any
\* iteration) reaches the top-level accumulator with the byte offset of the
\* offending text in the original source as its span start.
C13_SpanStart ==
    (input.kind \in {"eval", "forbad"} /\ pc = "done") =>
        /\ Len(issues_with(issues, "command:unknown")) = BadCount(input)
        /\ \A j \in 1..Len(issues) :
              issues[j].id = "command:unknown" => issues[j].span.start = BadOffset(input)

\* the spans a handler invoked for a command input should be handed: the
\* command from its `(%` through its `%)`, the body from its first byte (the
\* byte after the separator, or the first byte of the head when the head is
\* handed to the empty-string command) over its length in the source
ExpectedCmdSpan(in) == Span(str_len(in.pre), str_len(in.head \o in.tail) + 4)

ExpectedBodySpan(in, fallback) ==
    IF fallback THEN Span(str_len(in.pre) + 2, str_len(in.head))
    ELSE IF in.tail = <<>> THEN Span(str_len(in.pre) + 2 + str_len(in.head), 0)
    ELSE Span(str_len(in.pre) + 2 + str_len(in.head) + len_utf8(in.tail[1]),
              str_len(in.tail) - len_utf8(in.tail[1]))

\* C14: every handler invoked by a top-level process is handed a body span
\* that starts at the byte offset of the first byte of its body and has the
\* body's byte length in the source, and a command span that runs from the
\* opening delimiter through the closing one, whatever text precedes the
\* invocation (unmatched closing delimiters included).
C14_HandlerSpans ==
    (input.kind = "cmd" /\ pc = "done") =>
        \A j \in 1..Len(calls) :
            /\ calls[j].cfg.cmd_span = ExpectedCmdSpan(input)
            /\ calls[j].cfg.body_span = ExpectedBodySpan(input, calls[j].fallback)

\* the span lies inside a text of n bytes
span_within(sp, n) == sp.start >= 0 /\ sp.len >= 0 /\ span_end(sp) <= n

\* C15: every span created while a source is processed lies inside the
\* source: the span of each issue in the accumulator and the command span and
\* body span handed to each handler end at or before the byte length of the
\* source, also when a command is not terminated.
C15_SpanBound ==
    /\ \A j \in 1..Len(issues) : span_within(issues[j].span, str_len(orig_s))
    /\ \A j \in 1..Len(calls) :
          /\ span_within(calls[j].cfg.cmd_span, str_len(orig_s))
          /\ span_within(calls[j].cfg.body_span, str_len(orig_s))

\* C16: the consistency check made when the issues of a reprocessed text are
\* absorbed never fails: the run of a nested input is not aborted by it, also
\* when the issue covers the whole reprocessed text (an unknown command that
\* is the entire body).
C16_AbsorbCheck ==
    input.kind \in {"eval", "forbad"} => panic # "debug_assert: malformed subspan"

\* the name holds whitespace or one of the characters % ( ) { }
HasForbiddenChar(name) ==
    \E i \in 1..Len(name) : name[i] \in {" ", "%", "(", ")", "{", "}"}

\* the registry after the j-th add_command call
RegistryAfter(j) == IF j < Len(added) THEN added[j + 1].before ELSE commands

\* C17: add_command(name, handler) with a name that holds whitespace or one of
\* % ( ) { } returns InvalidCommandName and leaves the registry as it was;
\* with any other name, the empty one included, it binds the name to the
\* handler, leaves the other names alone and returns the handler the name was
\* bound to before (none when it was not bound); the invocation of the name
\* processed afterwards is dispatched to the new handler.
C17_AddCommand ==
    /\ \A j \in 1..Len(added) :
          IF HasForbiddenChar(added[j].cmd)
          THEN /\ ~added[j].ok
               /\ RegistryAfter(j) = added[j].before
          ELSE /\ added[j].ok
               /\ added[j].prev = Binding(added[j].before, added[j].cmd)
               /\ DOMAIN RegistryAfter(j) = DOMAIN added[j].before \cup {added[j].cmd}
               /\ \A n \in DOMAIN RegistryAfter(j) :
                     RegistryAfter(j)[n] =
                         IF n = added[j].cmd THEN added[j].handler ELSE added[j].before[n]
    /\ (pc = "done" /\ added # <<>> /\ added[Len(added)].ok
        /\ input.head = added[Len(added)].cmd) =>
          /\ Len(calls) = 1
          /\ calls[1].handler = added[Len(added)].handler
          /\ ~calls[1].fallback

\* lit, bound to literal_handler, was rebound to eval_handler, the call
\* returned literal_handler, and (%lit a%) was dispatched to eval_handler
C17_Witness ==
    /\ pc = "done"
    /\ Len(added) = 1
    /\ added[1].cmd = S_lit
    /\ added[1].handler = "eval_handler"
    /\ added[1].prev = <<"literal_handler">>
    /\ input.head = S_lit
    /\ input.tail = <<" ", "a">>
    /\ Len(calls) = 1
    /\ calls[1].handler = "eval_handler"
    /\ output = <<"a">>

\* the commands among the items, in their order
RECURSIVE CommandItems(_)
CommandItems(items) ==
    IF items = <<>> THEN <<>>
    ELSE IF Head(items) = "txt" THEN CommandItems(Tail(items))
    ELSE <<Head(items)>> \o CommandItems(Tail(items))

\* the value of the variable a after the items, cur its value before them
RECURSIVE ValueAfter(_, _)
ValueAfter(items, cur) ==
    IF items = <<>> THEN cur
    ELSE ValueAfter(Tail(items),
                    CASE Head(items) = "let2" -> <<"2">>
                      [] Head(items) = "let3" -> <<"3">>
                      [] Head(items) = "nest" -> <<"4">>
                      [] OTHER -> cur)

\* what the items write when a has the value cur before them: a read writes
\* the value set by the last command in front of it
RECURSIVE Written(_, _)
Written(items, cur) ==
    IF items = <<>> THEN <<>>
    ELSE (CASE Head(items) = "txt" -> <<"t">>
            [] Head(items) = "get" -> cur
            [] Head(items) = "nest" -> <<"4">>
            [] OTHER -> <<>>)
         \o Written(Tail(items), ValueAfter(<<Head(items)>>, cur))

\* C18: the atoms of a source are dispatched strictly left to right, each
\* handler finishing with its recursive calls before the next atom: the
\* handler calls made so far are the first commands of the source in their
\* order, the variable a holds what the last of them left, and the output is
\* the concatenation of the results in atom order, so that a command sees
\* the variable as set by the commands before it and by none after it.
C18_Order ==
    input.kind = "seq" =>
        /\ pc # "abort"
        /\ Len(calls) <= Len(CommandItems(input.list))
        /\ \A j \in 1..Len(calls) : calls[j].atom = ItemAtom(CommandItems(input.list)[j])
        /\ engine_vars[<<"a">>] =
              ValueAfter(SubSeq(CommandItems(input.list), 1, Len(calls)), vars_before[<<"a">>])
        /\ pc = "done" =>
              /\ Len(calls) = Len(CommandItems(input.list))
              /\ output = Written(input.list, vars_before[<<"a">>])
              /\ issues = <<>>

\* (%a%)(%let a=2%)(%a%) has written 12: the first read saw the value of
\* before, the second the value set in between
C18_Witness ==
    /\ pc = "done"
    /\ input.kind = "seq"
    /\ input.list = <<"get", "let2", "get">>
    /\ output = <<"1", "2">>
    /\ Len(calls) = 3
    /\ engine_vars[<<"a">>] = <<"2">>

\* C19: process_body() replaces the body field of the context by the
\* processed form of the body: when eval_handler, which returns what
\* process_body() returned, is through, the body field equals the string it
\* returned.
C19_BodyReplaced ==
    \A j \in 1..Len(calls) :
        calls[j].handler = "eval_handler" => calls[j].body_left = calls[j].returned

\* the key of an element of a sort input: the element, the constant k, or
\* the value of the variable the element names
SortKeyOf(in, elem) ==
    IF in.body = <<"k">> THEN <<"k">>
    ELSE IF in.body = Open \o in.lv \o Close THEN elem
    ELSE vars_before[elem]

\* the order of the keys of the sort inputs
KeyRank(key) ==
    CASE key = <<"0">> -> 0
      [] key = <<"1">> -> 1
      [] key = <<"9">> -> 2
      [] key = <<"a">> -> 3
      [] key = <<"b">> -> 4
      [] key = <<"c">> -> 5
      [] key = <<"k">> -> 6

Descending(in) == in.text \in {<<"-">>, <<"d", "e", "s", "c">>}

\* element p of the list stands in front of element q in the sorted list:
\* its key comes first in the order asked for, or the keys are equal and p
\* stood in front of q
SortsBefore(in, p, q) ==
    LET kp == KeyRank(SortKeyOf(in, in.list[p]))
        kq == KeyRank(SortKeyOf(in, in.list[q]))
    IN  \/ (IF Descending(in) THEN kp > kq ELSE kp < kq)
        \/ kp = kq /\ p < q

SortedList(in) ==
    [j \in 1..Len(in.list) |->
        in.list[CHOOSE p \in 1..Len(in.list) :
                    Cardinality({q \in 1..Len(in.list) : SortsBefore(in, q, p)}) = j - 1]]

\* C20: sort_by writes the elements ordered by the keys got by binding the
\* variable to each element and processing the key expression, ascending
\* unless the descending order is asked for, and elements with equal keys
\* in the order they had in the list, ascending and descending alike.
C20_StableSort ==
    input.kind = "sort" =>
        /\ pc # "abort"
        /\ pc = "done" =>
              /\ output = join(SortedList(input), <<":">>)
              /\ issues = <<>>

\* the same for the ascending orders only
C20_Ascending ==
    (input.kind = "sort" /\ ~Descending(input)) => C20_StableSort

\* the same when no two elements have the same key
C20_DistinctKeys ==
    (input.kind = "sort"
     /\ \A p, q \in 1..Len(input.list) :
           p # q => SortKeyOf(input, input.list[p]) # SortKeyOf(input, input.list[q]))
        => C20_StableSort

\* the source holds an opening delimiter inside an open command, closes
\* none of them, and holds an unmatched closing delimiter in front
Malformed(cs) ==
    /\ Len(cs) >= 6
    /\ SubSeq(cs, 1, 6) = Close \o Open \o Open

\* C21: parse_commands terminates on every source, malformed, unterminated
\* and nested ones included: every iteration of its outer loop leaves a
\* remaining input that is empty or at least one two-character delimiter
\* shorter than before, so that the remaining input strictly shrinks, and
\* the loop goes on exactly as long as input remains.
C21_Terminates ==
    [][pc = "parse" =>
          /\ Len(s') < Len(s)
          /\ (s' = <<>> \/ Len(s') <= Len(s) - 2)
          /\ (pc' = "parse" <=> s' # <<>>)]_vars

\* parse_commands has returned on `%)(%(%`: an unmatched closer, then a
\* nested command that is not terminated
C21_Witness ==
    /\ pc = "dispatch"
    /\ idx = 1
    /\ s = <<>>
    /\ Malformed(orig_s)
    /\ lvl = 2
    /\ Len(issues) = 2

\* the character at position k of cs follows an escape character that is not
\* itself escaped: the run of backslashes right before it is of odd length
FollowsEscape(cs, k) == backslashes_before(cs, k) % 2 = 1

\* the character at position k of cs is an escape character that escapes the
\* character behind it
Escapes(cs, k) == cs[k] = "\\" /\ ~FollowsEscape(cs, k) /\ k < Len(cs)

\* the items auto_escape is to give for cs: one for every character, in
\* order, except the escape characters that escape another one
EscapedAsClaimed(cs, items) ==
    /\ Len(items) = Cardinality({k \in 1..Len(cs) : ~Escapes(cs, k)})
    /\ \A j \in 1..Len(items) :
          /\ items[j].k \in 1..Len(cs)
          /\ ~Escapes(cs, items[j].k)
          /\ items[j].c = cs[items[j].k]
          /\ items[j].i = str_len(SubSeq(cs, 1, items[j].k - 1))
          /\ items[j].esc = FollowsEscape(cs, items[j].k)
          /\ j > 1 => items[j].k > items[j - 1].k

\* C22: auto_escape with the backslash as escape character gives, for the
\* source and for every remaining input parse_commands scans, one item for
\* each character in order except the escape characters that escape
\* another one: an item is marked escaped exactly when it follows an escape
\* character that is not itself escaped, an unescaped escape character at
\* the end is given as itself and unmarked, and escaping is never two deep.
C22_AutoEscape ==
    /\ EscapedAsClaimed(orig_s, auto_escape(orig_s))
    /\ EscapedAsClaimed(s, auto_escape(s))

\* the source `\\a\` has been scanned: the second backslash is escaped, a is
\* not, and the backslash at the end is given as itself
C22_Witness ==
    /\ pc = "dispatch"
    /\ orig_s = <<"\\", "\\", "a", "\\">>
    /\ parsed = <<Str(orig_s)>>
    /\ auto_escape(orig_s) =
          <<Item(TRUE, 1, 2, "\\"), Item(FALSE, 2, 3, "a"), Item(FALSE, 3, 4, "\\")>>

\* an alternative of the short-circuit inputs that gives the empty string
GivesEmpty(x) ==
    x \in {<<>>, Open \o <<"b">> \o Close, Open \o S_let \o <<" ", "a", "=", "2">> \o Close}

\* the alternatives a short-circuiting alt evaluates: all up to the first
\* one that does not give the empty string, that one included
Evaluated(alts) ==
    {j \in 1..Len(alts) : \A h \in 1..(j - 1) : GivesEmpty(alts[h])}

\* C23: alt evaluates its alternatives left to right and stops at the first
\* one that is not empty: the commands of the later alternatives are not
\* processed, so the variable a is set only by a let among the evaluated
\* alternatives, and issues come only from the unbound variables among them.
C23_ShortCircuit ==
    (input.kind = "alt" /\ pc = "done") =>
        /\ engine_vars[<<"a">>] =
              IF \E j \in Evaluated(input.list) :
                     input.list[j] = Open \o S_let \o <<" ", "a", "=", "2">> \o Close
              THEN <<"2">> ELSE vars_before[<<"a">>]
        /\ Len(issues) =
              Cardinality({j \in Evaluated(input.list) :
                               input.list[j] = Open \o <<"b">> \o Close})

\* the same of the output alone: it is the value of the first alternative
\* that is not empty, read with the variable as the alternatives in front
\* of it left it
C23_Output ==
    (input.kind = "alt" /\ pc = "done") =>
        \A j \in Evaluated(input.list) :
            ~GivesEmpty(input.list[j]) =>
                output =
                    IF input.list[j] = <<"a">> THEN <<"a">>
                    ELSE IF \E h \in 1..(j - 1) :
                                input.list[h] = Open \o S_let \o <<" ", "a", "=", "2">> \o Close
                    THEN <<"2">> ELSE vars_before[<<"a">>]

\* the pieces of an "args" input cut at its separator pieces: the runs of
\* pieces between two `:`, empty runs included
RECURSIVE PieceRuns(_)
PieceRuns(pieces) ==
    LET at == {j \in 1..Len(pieces) : pieces[j] = <<":">>}
    IN  IF at = {} THEN <<pieces>>
        ELSE LET first == CHOOSE j \in at : \A h \in at : j <= h
             IN  <<SubSeq(pieces, 1, first - 1)>>
                 \o PieceRuns(SubSeq(pieces, first + 1, Len(pieces)))

\* a piece as it is to stand in a part: `\:` as `:`, `\\` as `\`, every
\* other piece unchanged
PieceText(piece) ==
    IF piece = <<"\\", ":">> THEN <<":">>
    ELSE IF piece = <<"\\", "\\">> THEN <<"\\">>
    ELSE piece

RECURSIVE PartText(_)
PartText(pieces) ==
    IF pieces = <<>> THEN <<>> ELSE PieceText(Head(pieces)) \o PartText(Tail(pieces))

\* C24: split_args splits at exactly the colons that are unescaped and at
\* nesting level 0, and in every part, the first one included, `\:` becomes
\* `:` and `\\` becomes `\` while every other backslash sequence and every
\* nested invocation is kept as it is.
C24_SplitArgs ==
    (input.kind = "args" /\ pc = "done") =>
        /\ Len(args_out) = Len(PieceRuns(input.list))
        /\ \A j \in 1..Len(args_out) : args_out[j] = PartText(PieceRuns(input.list)[j])

\* the same of the places of the cuts and of every part but the first
C24_LaterParts ==
    (input.kind = "args" /\ pc = "done") =>
        /\ Len(args_out) = Len(PieceRuns(input.list))
        /\ args_out[1] = concat(PieceRuns(input.list)[1])
        /\ \A j \in 2..Len(args_out) : args_out[j] = PartText(PieceRuns(input.list)[j])

\* the byte offsets in cs of its closing delimiters at level 0, read left to
\* right and two characters at a time at a delimiter or a backslash; k is the
\* position reached, i its byte offset and d the nesting level
RECURSIVE unmatched_closers(_, _, _, _)
unmatched_closers(cs, k, i, d) ==
    IF k > Len(cs) THEN <<>>
    ELSE IF cs[k] = "\\" /\ k + 1 <= Len(cs)
    THEN unmatched_closers(cs, k + 2, i + 1 + len_utf8(cs[k + 1]), d)
    ELSE IF k + 1 <= Len(cs) /\ <<cs[k], cs[k + 1]>> = Open
    THEN unmatched_closers(cs, k + 2, i + 2, d + 1)
    ELSE IF k + 1 <= Len(cs) /\ <<cs[k], cs[k + 1]>> = Close
    THEN IF d = 0 THEN <<i>> \o unmatched_closers(cs, k + 2, i + 2, 0)
         ELSE unmatched_closers(cs, k + 2, i + 2, d - 1)
    ELSE unmatched_closers(cs, k + 1, i + len_utf8(cs[k]), d)

UnmatchedIssues == issues_with(issues, "command:unmatched_closing_delim")

\* C25: every command:unmatched_closing_delim issue has the span (p, 2) with
\* p the byte offset of its `%)` in the source handed to process, wherever
\* the closer stands: after commands, after other unmatched closers, or in
\* front of them.  Stated of the runs that raise one issue for each unmatched
\* closer of the source.
C25_CloserSpan ==
    (pc = "done"
     /\ Len(UnmatchedIssues) = Len(unmatched_closers(orig_s, 1, 0, 0))) =>
        \A j \in 1..Len(UnmatchedIssues) :
            UnmatchedIssues[j].span = Span(unmatched_closers(orig_s, 1, 0, 0)[j], 2)

\* the same of the first unmatched closer when no delimiter stands in front
\* of it
C25_FirstCloser ==
    (pc = "done"
     /\ Len(UnmatchedIssues) = Len(unmatched_closers(orig_s, 1, 0, 0))
     /\ UnmatchedIssues # <<>>
     /\ ~HasUnescapedDelim(SubSeq(orig_s, 1, unmatched_closers(orig_s, 1, 0, 0)[1]))) =>
        UnmatchedIssues[1].span = Span(unmatched_closers(orig_s, 1, 0, 0)[1], 2)

\* C26: after sort_by returns, the entry of the variable table for the sort
\* variable is the same as before the call: the earlier value when it was
\* bound, absent when it was not, whatever the list was.
C26_SortVarRestored ==
    (input.kind = "sort" /\ pc = "done") =>
        Binding(engine_vars, input.lv) = Binding(vars_before, input.lv)

\* the same for the calls with a sort variable that was bound before, or
\* with a list of less than two elements
C26_BoundOrShort ==
    (input.kind = "sort" /\ pc = "done"
     /\ (input.lv \in DOMAIN vars_before \/ Len(input.list) < 2)) =>
        Binding(engine_vars, input.lv) = Binding(vars_before, input.lv)

\* the rest of the variable table is as it was
C26_OtherVars ==
    (input.kind = "sort" /\ pc = "done") =>
        \A name \in (DOMAIN engine_vars \cup DOMAIN vars_before) \ {input.lv} :
            Binding(engine_vars, name) = Binding(vars_before, name)

\* C27: an issue made by invalid_args or push_invalid_args has the id
\* command:invalid_args and the cmd_span of the context as its span: every
\* such issue a handler of a command input pushes spans the whole invocation
\* the handler was called for.
C27_InvalidArgsSpan ==
    (input.kind = "cmd" /\ pc = "done") =>
        \A j \in 1..Len(issues) :
            issues[j].id = "command:invalid_args" =>
                /\ Len(calls) = 1
                /\ issues[j].span = calls[1].cfg.cmd_span

\* what holds in its place: the issue has the body_span of the context
C27_BodySpan ==
    (input.kind = "cmd" /\ pc = "done") =>
        \A j \in 1..Len(issues) :
            issues[j].id = "command:invalid_args" =>
                /\ Len(calls) = 1
                /\ issues[j].span = calls[1].cfg.body_span

\* the atoms written one after the other, the text of a Command atom
\* between `(%` and `%)`
RECURSIVE Rebuilt(_)
Rebuilt(atoms) ==
    IF atoms = <<>> THEN <<>>
    ELSE (IF Head(atoms).tag = "Command"
          THEN Open \o Head(atoms).text \o Close ELSE Head(atoms).text)
         \o Rebuilt(Tail(atoms))

\* parse_commands has returned and has raised no issue
ParsedClean == pc = "dispatch" /\ idx = 1 /\ issues = <<>>

\* C28: when parse_commands raises no issue on a source, its atoms written
\* in order, each Command atom between `(%` and `%)` and each Str atom as it
\* is, give the source again byte for byte.
C28_Reconstruct == ParsedClean => Rebuilt(parsed) = orig_s

\* the same of the sources that parse_commands leaves at level 0, that is,
\* that do not end with the opening delimiter of a command
C28_Closed == (ParsedClean /\ lvl = 0) => Rebuilt(parsed) = orig_s

\* on the remaining sources only that opening delimiter at the end is lost
C28_OpenAtEnd ==
    (ParsedClean /\ lvl # 0) =>
        /\ lvl = 1
        /\ Rebuilt(parsed) \o Open = orig_s

\* the strings of the integers from a to b, ascending; none when a > b
RangeValues(a, b) ==
    [j \in 1..(IF b >= a THEN b - a + 1 ELSE 0) |-> to_string(a + j - 1)]

\* the values the outer and the inner loop of a nested input iterate over
OuterValues(in) == in.list

InnerValues(in) ==
    IF in.kind = "inrange" THEN RangeValues(in.a, in.b)
    ELSE IF in.head = <<>> THEN <<>> ELSE <<in.head>>

\* what a nested input is to give: on every outer iteration, the inner
\* loop's values and then the outer loop's value of that iteration
NestedOutput(in) ==
    concat([j \in 1..Len(OuterValues(in)) |-> concat(InnerValues(in)) \o OuterValues(in)[j]])

\* the inner loop is a range whose start is above its end
EmptyRange(in) == in.kind = "inrange" /\ in.a > in.b

\* C29: when a for-loop runs inside the body of a for-loop over the same
\* variable name, then after the inner loop returns, whatever its number of
\* iterations, the variable holds the outer loop's value of the iteration
\* again, and after the outer loop returns the variable is as it was before.
C29_NestedLoops ==
    (input.kind \in {"inrange", "inlist"} /\ pc = "done") =>
        /\ output = NestedOutput(input)
        /\ issues = <<>>
        /\ Binding(engine_vars, input.lv) = Binding(vars_before, input.lv)

\* the same for every inner loop but a range with its start above its end
C29_NoEmptyRange ==
    (input.kind \in {"inrange", "inlist"} /\ pc = "done" /\ ~EmptyRange(input)) =>
        /\ output = NestedOutput(input)
        /\ issues = <<>>
        /\ Binding(engine_vars, input.lv) = Binding(vars_before, input.lv)

\* an inner range with its start above its end leaves the variable unbound
\* for the rest of every outer iteration: reading it raises an issue each time
C29_InnerEmptyRange ==
    (input.kind = "inrange" /\ pc = "done" /\ EmptyRange(input)) =>
        /\ output = <<>>
        /\ Len(issues) = Len(input.list)
        /\ Binding(engine_vars, input.lv) = Binding(vars_before, input.lv)

\* the positions of the characters of a located input in front of offset a,
\* and those of them that hold a newline
LocBefore(in) == 1..chars_before(in.text, in.a)

NewlinesBefore(in) == {j \in LocBefore(in) : in.text[j] = "\n"}

\* the position of the last newline in front of the offset, 0 without one
LineStart(in) ==
    IF NewlinesBefore(in) = {} THEN 0
    ELSE CHOOSE j \in NewlinesBefore(in) : \A k \in NewlinesBefore(in) : k <= j

\* the characters of two bytes between the last newline and the offset
WideInLine(in) == {j \in LocBefore(in) : j > LineStart(in) /\ in.text[j] = TwoByte}

\* C30: for every string s and every character-boundary index i <= len(s),
\* from_index(i, s) gives row = the number of newlines before i and col =
\* the number of characters since the last newline or the start, and
\* to_index of that location and s gives i again, on one line or several.
C30_RoundTrip ==
    (input.kind = "loc" /\ pc = "done") =>
        /\ file_loc.row = Cardinality(NewlinesBefore(input))
        /\ file_loc.col = Cardinality(LocBefore(input)) - LineStart(input)
        /\ loc_index = input.a

\* the location is as claimed
C30_FromIndex ==
    (input.kind = "loc" /\ pc \in {"to_index", "done"}) =>
        /\ file_loc.row = Cardinality(NewlinesBefore(input))
        /\ file_loc.col = Cardinality(LocBefore(input)) - LineStart(input)

\* the index that comes back is short by one for every newline in front of
\* the offset and for every character of two bytes of the offset's line
C30_IndexShort ==
    (input.kind = "loc" /\ pc = "done") =>
        loc_index = input.a - Cardinality(NewlinesBefore(input))
                    - Cardinality(WideInLine(input))

\* the slice panics exactly when the offset is inside a character
C30_Boundary ==
    input.kind = "loc" =>
        (pc = "abort" <=> (panic # "" /\ ~is_char_boundary(input.text, input.a)))

====
